---------------------------- MODULE Spec2Model ----------------------------
(***************************************************************************)
(* Model of the Paprika license codec of kappari (src/src/roundtrip.py):   *)
(* encrypt_paprika_data and decrypt_paprika_data, with the conversions     *)
(* they are built from (UTF-8, PKCS#7, CBC chaining, Base64).              *)
(*                                                                         *)
(* Bytes are integers 0..255, a byte string is a sequence of bytes, a      *)
(* Python str is a sequence of Unicode code points.  A Base64 text is a    *)
(* sequence of character classes: 0..63 is the alphabet character with     *)
(* that sextet value, PadChar is '=', OtherChar is any other ASCII         *)
(* character, NonAsciiChar is any character above U+007F.                  *)
(*                                                                         *)
(* The two library primitives, PBKDF2-HMAC-SHA1 and the AES-256 block      *)
(* transformation, are replaced by small stand-ins that keep what the      *)
(* codec relies on: PBKDF2 is a deterministic function of (password,       *)
(* salt, length); the block transformation is a key-dependent permutation  *)
(* of 16-byte blocks with a distinct inverse.  Everything around them is   *)
(* computed as the code computes it.                                       *)
(***************************************************************************)
EXTENDS Integers, Sequences, FiniteSets, TLC

VARIABLES encCall, encCall2, decCall, surfaced,
          environ, instance, created, cfgCall, held,
          db, verify,
          tasks, shared,
          client, auth, sent, netCall, origin

codecVars == <<encCall, encCall2, decCall, surfaced>>

configVars == <<environ, instance, created, cfgCall, held>>

verifyVars == <<db, verify>>

taskVars == <<tasks, shared>>

netVars == <<client, auth, sent, netCall, origin>>

vars == <<codecVars, configVars, verifyVars, taskVars, netVars>>

(***************************************************************************)
(* Program constants.                                                      *)
(***************************************************************************)
SaltLen == 32
BlockSize == 16
DkLen == 48
KeyLen == 32
PadChar == 64
OtherChar == 65
NonAsciiChar == 66

(***************************************************************************)
(* Bounds of the model.                                                    *)
(***************************************************************************)
MaxChars == 33
MaxLog == 2

(***************************************************************************)
(* Optional values: None is the empty tuple, Some(x) a one-element tuple.  *)
(***************************************************************************)
None == <<>>
Some(x) == <<x>>
IsNone(o) == Len(o) = 0
Get(o) == o[1]

(***************************************************************************)
(* Byte-string helpers (Python slicing, bytes([v] * n), sums).             *)
(***************************************************************************)
Slice(s, from, to) == [i \in 1..(IF to >= from THEN to - from + 1 ELSE 0) |-> s[from + i - 1]]

Repeat(v, n) == [i \in 1..n |-> v]

\* The sum of s[lo..hi], by halves (the recursion stays shallow).
RECURSIVE SumRange(_, _, _)
SumRange(s, lo, hi) ==
    IF lo > hi THEN 0
    ELSE IF lo = hi THEN s[lo]
    ELSE SumRange(s, lo, (lo + hi) \div 2) + SumRange(s, ((lo + hi) \div 2) + 1, hi)

Sum(s) == SumRange(s, 1, Len(s))

RECURSIVE Xor(_, _, _)
Xor(a, b, bits) ==
    IF bits = 0 THEN 0
    ELSE (((a % 2) + (b % 2)) % 2) + 2 * Xor(a \div 2, b \div 2, bits - 1)

XorBlock(x, y) == [i \in 1..BlockSize |-> Xor(x[i], y[i], 8)]

(***************************************************************************)
(* str.encode("utf-8") and bytes.decode("utf-8").  A str holds code points *)
(* 0..0x10FFFF; the surrogates U+D800..U+DFFF cannot be encoded.           *)
(***************************************************************************)
IsSurrogate(cp) == cp >= 55296 /\ cp <= 57343

IsCont(b) == b >= 128 /\ b <= 191

Utf8Char(cp) ==
    IF cp < 128 THEN <<cp>>
    ELSE IF cp < 2048 THEN <<192 + (cp \div 64), 128 + (cp % 64)>>
    ELSE IF cp < 65536
         THEN <<224 + (cp \div 4096), 128 + ((cp \div 64) % 64), 128 + (cp % 64)>>
    ELSE <<240 + (cp \div 262144), 128 + ((cp \div 4096) % 64),
           128 + ((cp \div 64) % 64), 128 + (cp % 64)>>

\* The encodings of str[lo..hi] concatenated, by halves.
RECURSIVE Utf8EncodeRange(_, _, _)
Utf8EncodeRange(str, lo, hi) ==
    IF lo > hi THEN <<>>
    ELSE IF lo = hi THEN Utf8Char(str[lo])
    ELSE Utf8EncodeRange(str, lo, (lo + hi) \div 2)
         \o Utf8EncodeRange(str, ((lo + hi) \div 2) + 1, hi)

Utf8Encodable(str) == \A i \in 1..Len(str) : ~IsSurrogate(str[i])

Utf8Encode(str) == Utf8EncodeRange(str, 1, Len(str))

\* The length of the well-formed UTF-8 sequence that starts at b[i], 0 if none.
Utf8SeqLen(b, i) ==
    LET n  == Len(b)
        b0 == b[i]
        b1 == b[i + 1]
    IN  IF b0 < 128 THEN 1
        ELSE IF b0 >= 194 /\ b0 <= 223
             THEN IF i + 1 <= n /\ IsCont(b1) THEN 2 ELSE 0
        ELSE IF b0 >= 224 /\ b0 <= 239
             THEN IF /\ i + 2 <= n
                     /\ IsCont(b1) /\ IsCont(b[i + 2])
                     /\ (b0 = 224 => b1 >= 160)
                     /\ (b0 = 237 => b1 <= 159)
                  THEN 3 ELSE 0
        ELSE IF b0 >= 240 /\ b0 <= 244
             THEN IF /\ i + 3 <= n
                     /\ IsCont(b1) /\ IsCont(b[i + 2]) /\ IsCont(b[i + 3])
                     /\ (b0 = 240 => b1 >= 144)
                     /\ (b0 = 244 => b1 <= 143)
                  THEN 4 ELSE 0
        ELSE 0

Utf8CodePoint(b, i, k) ==
    IF k = 1 THEN b[i]
    ELSE IF k = 2 THEN (b[i] - 192) * 64 + (b[i + 1] - 128)
    ELSE IF k = 3
         THEN (b[i] - 224) * 4096 + (b[i + 1] - 128) * 64 + (b[i + 2] - 128)
    ELSE (b[i] - 240) * 262144 + (b[i + 1] - 128) * 4096
         + (b[i + 2] - 128) * 64 + (b[i + 3] - 128)

\* UTF-8 is self-synchronising: every byte that is not a continuation byte
\* starts a sequence, which must be well formed and be followed by the next
\* start (or the end).
Utf8Starts(b) ==
    LET IsStart(i) == ~IsCont(b[i])
    IN  SelectSeq([i \in 1..Len(b) |-> i], IsStart)

Utf8Valid(b) ==
    /\ Len(b) > 0 => ~IsCont(b[1])
    /\ \A i \in 1..Len(b) :
           ~IsCont(b[i]) =>
               /\ Utf8SeqLen(b, i) > 0
               /\ \/ i + Utf8SeqLen(b, i) = Len(b) + 1
                  \/ ~IsCont(b[i + Utf8SeqLen(b, i)])

Utf8DecodeValid(b) ==
    LET starts == Utf8Starts(b)
    IN  [j \in 1..Len(starts) |->
            Utf8CodePoint(b, starts[j], Utf8SeqLen(b, starts[j]))]

\* None when the bytes are not UTF-8 (UnicodeDecodeError), else Some(str).
Utf8Decode(b) == IF Utf8Valid(b) THEN Some(Utf8DecodeValid(b)) ELSE None

(***************************************************************************)
(* base64.b64encode and base64.b64decode (binascii.a2b_base64, not         *)
(* strict: characters outside the alphabet are skipped, a complete pad     *)
(* sequence ends the parse, a dangling quad is an error).                  *)
(***************************************************************************)
ByteAt(b, i) == IF i <= Len(b) THEN b[i] ELSE 0

B64EncodeChar(b, i) ==
    LET g  == (i - 1) \div 4
        k  == (i - 1) % 4
        b1 == ByteAt(b, 3 * g + 1)
        b2 == ByteAt(b, 3 * g + 2)
        b3 == ByteAt(b, 3 * g + 3)
    IN  IF k = 0 THEN b1 \div 4
        ELSE IF k = 1 THEN (b1 % 4) * 16 + (b2 \div 16)
        ELSE IF k = 2
             THEN IF 3 * g + 2 > Len(b) THEN PadChar ELSE (b2 % 16) * 4 + (b3 \div 64)
        ELSE IF 3 * g + 3 > Len(b) THEN PadChar ELSE b3 % 64

B64Encode(b) == [i \in 1..(4 * ((Len(b) + 2) \div 3)) |-> B64EncodeChar(b, i)]

IsData(ch) == ch < 64

\* quad_pos after the first i characters: the data characters seen, modulo 4.
QuadPos(text, i) == Cardinality({j \in 1..i : IsData(text[j])}) % 4

\* pads at the pad character text[i]: the pad characters since the last data
\* character, text[i] included.
PadsAt(text, i) ==
    Cardinality({j \in 1..i : /\ text[j] = PadChar
                              /\ \A k \in j..i : ~IsData(text[k])})

\* "A pad sequence means we should not parse more input."
StopsAt(text, i) ==
    /\ text[i] = PadChar
    /\ QuadPos(text, i) >= 2
    /\ QuadPos(text, i) + PadsAt(text, i) >= 4

DecodedByte(data, k) ==
    LET s == ((8 * (k - 1)) \div 6) + 1
    IN  IF k % 3 = 1 THEN data[s] * 4 + (data[s + 1] \div 16)
        ELSE IF k % 3 = 2 THEN (data[s] % 16) * 16 + (data[s + 1] \div 4)
        ELSE (data[s] % 4) * 64 + data[s + 1]

A2bBase64(text) ==
    LET stops == {i \in 1..Len(text) : StopsAt(text, i)}
        stop  == IF stops = {} THEN Len(text) + 1
                 ELSE CHOOSE i \in stops : \A j \in stops : i <= j
        data  == SelectSeq(SubSeq(text, 1, stop - 1), IsData)
    IN  IF stops = {} /\ Len(data) % 4 = 1
        THEN [err |-> "Invalid base64-encoded string", bytes |-> <<>>]
        ELSE IF stops = {} /\ Len(data) % 4 # 0
        THEN [err |-> "Incorrect padding", bytes |-> <<>>]
        ELSE [err |-> "",
              bytes |-> [k \in 1..((Len(data) * 6) \div 8) |-> DecodedByte(data, k)]]

\* [exc, msg, bytes]: exc is "" when decoding succeeded.
B64Decode(text) ==
    IF \E i \in 1..Len(text) : text[i] = NonAsciiChar
    THEN [exc |-> "ValueError",
          msg |-> "string argument should contain only ASCII characters",
          bytes |-> <<>>]
    ELSE LET r == A2bBase64(text)
         IN  [exc |-> IF r.err = "" THEN "" ELSE "binascii.Error",
              msg |-> r.err, bytes |-> r.bytes]

(***************************************************************************)
(* Stand-ins for the two library primitives.                               *)
(***************************************************************************)
\* PBKDF2(password, salt, dkLen, count=1000, hmac_hash_module=SHA1)
PBKDF2(password, salt, dkLen) ==
    LET h == 7 * Sum(password) + 13 * Sum(salt)
             + 3 * Len(password) + 5 * Len(salt) + 1
    IN  [i \in 1..dkLen |-> (h * i + 17 * i * i + ByteAt(salt, i)) % 256]

\* The AES-256 block transformation under a 32-byte key, and its inverse.
AesEncryptBlock(key, blk) ==
    [i \in 1..BlockSize |->
        (blk[(i % BlockSize) + 1] + key[i] + key[i + BlockSize]) % 256]

AesDecryptBlock(key, blk) ==
    [j \in 1..BlockSize |->
        LET i == ((j - 2) % BlockSize) + 1
        IN  (blk[i] - key[i] - key[i + BlockSize]) % 256]

(***************************************************************************)
(* AES.new(key, AES.MODE_CBC, iv).encrypt / .decrypt: CBC chaining over    *)
(* whole blocks; data that is not a multiple of the block size raises      *)
(* ValueError (None here).                                                 *)
(***************************************************************************)
BlockOf(data, n) == Slice(data, (n - 1) * BlockSize + 1, n * BlockSize)

RECURSIVE CbcEncryptFrom(_, _, _, _)
CbcEncryptFrom(key, prev, data, n) ==
    IF (n - 1) * BlockSize >= Len(data) THEN <<>>
    ELSE LET c == AesEncryptBlock(key, XorBlock(BlockOf(data, n), prev))
         IN  c \o CbcEncryptFrom(key, c, data, n + 1)

CbcEncrypt(key, iv, data) ==
    IF Len(data) % BlockSize # 0 THEN None
    ELSE Some(CbcEncryptFrom(key, iv, data, 1))

\* Block n of the plaintext needs only ciphertext blocks n and n - 1.
CbcDecryptBlock(key, iv, data, n) ==
    XorBlock(AesDecryptBlock(key, BlockOf(data, n)),
             IF n = 1 THEN iv ELSE BlockOf(data, n - 1))

CbcDecryptAll(key, iv, data) ==
    LET blocks == [n \in 1..(Len(data) \div BlockSize) |->
                      CbcDecryptBlock(key, iv, data, n)]
    IN  [i \in 1..Len(data) |->
            blocks[((i - 1) \div BlockSize) + 1][((i - 1) % BlockSize) + 1]]

CbcDecrypt(key, iv, data) ==
    IF Len(data) % BlockSize # 0 THEN None
    ELSE Some(CbcDecryptAll(key, iv, data))

(***************************************************************************)
(* Outcome of a call: either a returned pair (ret = Some) or a raised      *)
(* exception (exc # ""), together with the library calls made, in order,   *)
(* and the padded plaintext the call held.                                 *)
(***************************************************************************)
Returned(value, salt, trace, padded) ==
    [ret |-> Some([value |-> value, salt |-> salt]),
     exc |-> "", cause |-> "", msg |-> "", trace |-> trace, padded |-> padded]

Raised(exc, cause, msg, trace, padded) ==
    [ret |-> None, exc |-> exc, cause |-> cause, msg |-> msg,
     trace |-> trace, padded |-> padded]

\* Mutant: the failure is handed back as a value instead of being raised.
DecryptionFailedAsValue(cause, msg, trace, padded) ==
    Returned(msg, <<>>, trace, padded)

\* except Exception as e: raise Exception(f"Decryption failed: {e}") from e
DecryptionFailed(cause, msg, trace, padded) ==
    Raised("Exception", cause, msg, trace, padded)

(***************************************************************************)
(* encrypt_paprika_data(plaintext, password, salt=None).  random is what   *)
(* get_random_bytes(32) returns if it is called.                           *)
(***************************************************************************)
\* Mutant: only a salt that is too short is rejected.
SaltRejectedIfShort(salt) == ~IsNone(salt) /\ Len(Get(salt)) < SaltLen

SaltRejected(salt) == ~IsNone(salt) /\ Len(Get(salt)) # SaltLen

\* Mutant: the salt is drawn from the random source even when one is supplied.
ChooseSaltAlwaysRandom(salt, random) ==
    [salt |-> random, trace |-> <<"get_random_bytes">>]

\* Mutant: get_random_bytes(16), a salt of half the length.
ChooseSaltShort(salt, random) ==
    IF IsNone(salt)
    THEN [salt |-> Slice(random, 1, 16), trace |-> <<"get_random_bytes">>]
    ELSE [salt |-> Get(salt), trace |-> <<>>]

\* if salt is None: salt = get_random_bytes(32)
ChooseSalt(salt, random) ==
    IF IsNone(salt)
    THEN [salt |-> random, trace |-> <<"get_random_bytes">>]
    ELSE [salt |-> Get(salt), trace |-> <<>>]

\* Mutant: no padding when the length is already a multiple of the block size.
PaddingLengthSkipAligned(n) == (BlockSize - (n % BlockSize)) % BlockSize

PaddingLength(n) == BlockSize - (n % BlockSize)

Pkcs7Pad(plaintext_bytes) ==
    plaintext_bytes
    \o Repeat(PaddingLength(Len(plaintext_bytes)), PaddingLength(Len(plaintext_bytes)))

\* Mutant: the salt is appended instead of prepended.
EncryptedDataSaltLast(salt, ciphertext) == ciphertext \o salt

EncryptedData(salt, ciphertext) == salt \o ciphertext

encrypt_paprika_data(plaintext, password, salt, random) ==
    IF SaltRejected(salt)
    THEN Raised("ValueError", "", "Salt must be exactly 32 bytes", <<>>, <<>>)
    ELSE IF ~Utf8Encodable(password)
    THEN Raised("UnicodeEncodeError", "", "surrogates not allowed",
                ChooseSalt(salt, random).trace, <<>>)
    ELSE IF ~Utf8Encodable(plaintext)
    THEN Raised("UnicodeEncodeError", "", "surrogates not allowed",
                ChooseSalt(salt, random).trace \o <<"PBKDF2">>, <<>>)
    ELSE LET salt_used        == ChooseSalt(salt, random).salt
             key_iv           == PBKDF2(Utf8Encode(password), salt_used, DkLen)
             key              == Slice(key_iv, 1, KeyLen)
             iv               == Slice(key_iv, KeyLen + 1, DkLen)
             padded_plaintext == Pkcs7Pad(Utf8Encode(plaintext))
             ciphertext       == Get(CbcEncrypt(key, iv, padded_plaintext))
             encrypted_b64    == B64Encode(EncryptedData(salt_used, ciphertext))
         IN  Returned(encrypted_b64, salt_used,
                      ChooseSalt(salt, random).trace
                          \o <<"PBKDF2", "AES.encrypt", "b64encode">>,
                      padded_plaintext)

(***************************************************************************)
(* decrypt_paprika_data(encrypted_b64, password).                          *)
(***************************************************************************)
LastByte(b) == b[Len(b)]

\* Mutant: only the claimed padding length is checked, not the padding bytes.
PaddingValidLengthOnly(decrypted_padded) ==
    /\ 1 <= LastByte(decrypted_padded)
    /\ LastByte(decrypted_padded) <= 16

PaddingValid(decrypted_padded) ==
    LET n           == Len(decrypted_padded)
        padding_len == LastByte(decrypted_padded)
    IN  /\ 1 <= padding_len
        /\ padding_len <= 16
        /\ \A i \in (n - padding_len + 1)..n : decrypted_padded[i] = padding_len

\* Mutant: one padding byte is left on the plaintext.
UnpadOffByOne(decrypted_padded) ==
    Slice(decrypted_padded, 1, Len(decrypted_padded) - LastByte(decrypted_padded) + 1)

Unpad(decrypted_padded) ==
    Slice(decrypted_padded, 1, Len(decrypted_padded) - LastByte(decrypted_padded))

SaltOf(encrypted_data) ==
    Slice(encrypted_data, 1,
          IF Len(encrypted_data) < SaltLen THEN Len(encrypted_data) ELSE SaltLen)

CiphertextOf(encrypted_data) == Slice(encrypted_data, SaltLen + 1, Len(encrypted_data))

decrypt_paprika_data(encrypted_b64, password) ==
    LET decoded          == B64Decode(encrypted_b64)
        salt             == SaltOf(decoded.bytes)
        ciphertext       == CiphertextOf(decoded.bytes)
        key_iv           == PBKDF2(Utf8Encode(password), salt, DkLen)
        key              == Slice(key_iv, 1, KeyLen)
        iv               == Slice(key_iv, KeyLen + 1, DkLen)
        decrypted        == CbcDecrypt(key, iv, ciphertext)
        decrypted_padded == Get(decrypted)
        plaintext        == Utf8Decode(Unpad(decrypted_padded))
    IN  IF decoded.exc # ""
        THEN DecryptionFailed(decoded.exc, decoded.msg, <<"b64decode">>, <<>>)
        ELSE IF ~Utf8Encodable(password)
        THEN DecryptionFailed("UnicodeEncodeError", "surrogates not allowed",
                              <<"b64decode">>, <<>>)
        ELSE IF IsNone(decrypted)
        THEN DecryptionFailed("ValueError",
                 "Data must be padded to 16 byte boundary in CBC mode",
                 <<"b64decode", "PBKDF2", "AES.decrypt">>, <<>>)
        ELSE IF Len(decrypted_padded) = 0
        THEN DecryptionFailed("IndexError", "index out of range",
                 <<"b64decode", "PBKDF2", "AES.decrypt", "padding">>, <<>>)
        ELSE IF ~PaddingValid(decrypted_padded)
        THEN DecryptionFailed("ValueError", "Invalid PKCS#7 padding",
                 <<"b64decode", "PBKDF2", "AES.decrypt", "padding">>,
                 decrypted_padded)
        ELSE IF IsNone(plaintext)
        THEN DecryptionFailed("UnicodeDecodeError", "'utf-8' codec can't decode",
                 <<"b64decode", "PBKDF2", "AES.decrypt", "padding", "decode">>,
                 decrypted_padded)
        ELSE Returned(Get(plaintext), salt,
                 <<"b64decode", "PBKDF2", "AES.decrypt", "padding", "decode">>,
                 decrypted_padded)

(***************************************************************************)
(* Inputs.  Plaintexts of every length 0..MaxChars in two shapes (ASCII    *)
(* only; mixed 1- to 4-byte characters), the two purchase passwords,       *)
(* supplied salts of the right and of wrong lengths, and the values the    *)
(* random source may return.                                               *)
(***************************************************************************)
AsciiText(n) == [i \in 1..n |-> 97 + (i % 26)]

MixedChars == <<123, 233, 8364, 128512, 34>>

MixedText(n) == [i \in 1..n |-> MixedChars[(i % Len(MixedChars)) + 1]]

Plaintexts == {AsciiText(n) : n \in 0..MaxChars} \cup {MixedText(n) : n \in 0..MaxChars}

\* "PD" and "PS" stand for "Purchase Data" and "Purchase Signature".
Passwords == {<<80, 68>>, <<80, 83>>}

GoodSalts == {Repeat(48, SaltLen), [i \in 1..SaltLen |-> (7 * i) % 256]}

BadSaltLens == {0, 16, 31, 33, 64}

BadSalts == {Repeat(48, n) : n \in BadSaltLens}

SaltArgs == {None} \cup {Some(x) : x \in GoodSalts \cup BadSalts}

RandomSalts == {[i \in 1..SaltLen |-> (13 * i + 5) % 256],
                [i \in 1..SaltLen |-> 255 - i]}

(***************************************************************************)
(* Texts handed to decrypt_paprika_data that no encryption produced:       *)
(* strings that are not Base64, Base64 of byte strings of every            *)
(* interesting length, and blobs whose blocks decrypt (under password W)   *)
(* to a chosen padded byte string.                                         *)
(***************************************************************************)
RawTexts ==
    { <<>>,
      <<13>>,
      <<13, 14>>,
      <<13, 14, 19, 64>>,
      <<64, 64, 64, 64>>,
      <<39, 40, 45, OtherChar, 47, 26, 37, 34, 29, OtherChar,
        27, 26, 44, 30, 58, 56, OtherChar, OtherChar>>,
      <<34, 39, 47, 26, 37, 34, 29, OtherChar, 27, 26, 44, 30, 58, 56,
        OtherChar, 29, 26, 45, 26>>,
      <<13, 14, NonAsciiChar, 19>> }

DecodedLens == {1, 16, 31, 32, 33, 40, 47, 53, 63}

ByteTexts == {B64Encode([i \in 1..n |-> (3 * i + n) % 256]) : n \in DecodedLens}

PaddedCases ==
    { Repeat(16, 16),
      Repeat(65, 15) \o <<0>>,
      Repeat(65, 15) \o <<17>>,
      Repeat(65, 15) \o <<255>>,
      Repeat(65, 13) \o <<3, 2, 3>>,
      Repeat(65, 12) \o <<3, 4, 4, 4>>,
      Repeat(65, 14) \o <<2, 2>>,
      Repeat(255, 15) \o <<1>>,
      Repeat(1, 16),
      Repeat(65, 16) \o Repeat(16, 15) \o <<15>>,
      Repeat(65, 16) \o Repeat(16, 16),
      Repeat(65, 15) \o <<195, 40>> \o Repeat(15, 15) }

Forge(password, salt, padded) ==
    LET key_iv == PBKDF2(Utf8Encode(password), salt, DkLen)
    IN  B64Encode(salt \o Get(CbcEncrypt(Slice(key_iv, 1, KeyLen),
                                         Slice(key_iv, KeyLen + 1, DkLen), padded)))

ForgedTexts == {Forge(<<80, 68>>, Repeat(48, SaltLen), p) : p \in PaddedCases}

DecryptTexts == RawTexts \cup ByteTexts \cup ForgedTexts

(***************************************************************************)
(* The caller: it makes one call, may repeat an encryption with the same   *)
(* arguments or decrypt the blob it got, and then drops the results.       *)
(***************************************************************************)
NoCall == [op |-> "none"]

EncCall(P, W, S, R) ==
    [op |-> "encrypt", plaintext |-> P, password |-> W, salt |-> S,
     random |-> R, r |-> encrypt_paprika_data(P, W, S, R)]

DecCall(B, W, from) ==
    [op |-> "decrypt", blob |-> B, password |-> W, from |-> from,
     r |-> decrypt_paprika_data(B, W)]

\* A process that has made no call: no Config object yet, an environment
\* with no KAPPARI_ variable set, no database file.
InitCodec ==
    /\ encCall = NoCall
    /\ encCall2 = NoCall
    /\ decCall = NoCall
    /\ surfaced = {}

InitConfig ==
    /\ instance = None
    /\ created = 0
    /\ cfgCall = NoCall
    /\ held = None

NoEnviron ==
    [KAPPARI_DB_PATH |-> None, default_db |-> None,
     KAPPARI_PURCHASE_DATA_KEY |-> None,
     KAPPARI_PURCHASE_SIGNATURE_KEY |-> None, KAPPARI_DRY_RUN |-> None,
     KAPPARI_API_BASE_URL |-> None]

NoStore == [exists |-> FALSE, table |-> FALSE, rows |-> <<>>]

\* No call of the codec is running; the modules hold no data of any call.
InitTasks ==
    /\ tasks = <<NoCall, NoCall>>
    /\ shared = <<>>

\* Which call of decrypt_license_data on the Auth object last assigned each
\* of its two fields (0: none), and how many calls there have been.
NoOrigin == [calls |-> 0, license_data |-> 0, signature |-> 0]

\* network_client and auth have not been imported.
InitNet ==
    /\ client = None
    /\ auth = None
    /\ sent = <<>>
    /\ netCall = NoCall
    /\ origin = NoOrigin

Init ==
    /\ InitCodec
    /\ InitConfig
    /\ InitTasks
    /\ InitNet
    /\ environ = NoEnviron
    /\ db = NoStore
    /\ verify = NoCall

EncryptFrom(Ps) ==
    /\ encCall = NoCall
    /\ decCall = NoCall
    /\ \E P \in Ps, W \in Passwords, S \in SaltArgs, R \in RandomSalts :
           encCall' = EncCall(P, W, S, R)
    /\ UNCHANGED <<encCall2, decCall, surfaced>>
    /\ UNCHANGED <<configVars, verifyVars, taskVars, netVars>>

Encrypt == EncryptFrom(Plaintexts)

EncryptAgain ==
    /\ encCall # NoCall
    /\ encCall2 = NoCall
    /\ decCall = NoCall
    /\ \E R \in RandomSalts :
           encCall2' = EncCall(encCall.plaintext, encCall.password, encCall.salt, R)
    /\ UNCHANGED <<encCall, decCall, surfaced>>
    /\ UNCHANGED <<configVars, verifyVars, taskVars, netVars>>

DecryptBlob ==
    /\ encCall # NoCall
    /\ encCall.r.ret # None
    /\ encCall2 = NoCall
    /\ decCall = NoCall
    /\ \E W \in Passwords :
           decCall' = DecCall(Get(encCall.r.ret).value, W, "encrypt")
    /\ UNCHANGED <<encCall, encCall2, surfaced>>
    /\ UNCHANGED <<configVars, verifyVars, taskVars, netVars>>

DecryptText ==
    /\ encCall = NoCall
    /\ decCall = NoCall
    /\ \E B \in DecryptTexts, W \in Passwords :
           decCall' = DecCall(B, W, "caller")
    /\ UNCHANGED <<encCall, encCall2, surfaced>>
    /\ UNCHANGED <<configVars, verifyVars, taskVars, netVars>>

Return ==
    /\ encCall # NoCall \/ decCall # NoCall
    /\ encCall' = NoCall
    /\ encCall2' = NoCall
    /\ decCall' = NoCall
    /\ UNCHANGED surfaced
    /\ UNCHANGED <<configVars, verifyVars, taskVars, netVars>>

Next == Encrypt \/ EncryptAgain \/ DecryptBlob \/ DecryptText \/ Return

Spec == Init /\ [][Next]_vars

(***************************************************************************)
(* A caller that keeps a log of the failures it has seen: for each failed  *)
(* call, which of the five conditions of the error contract the input met  *)
(* (decided on the input, in the order the contract lists them) and the    *)
(* error that reached it (exception class, wrapped exception, message).    *)
(* For the empty string the contract allows two kinds, so a failure on it  *)
(* is not logged.  The log holds at most MaxLog entries.                   *)
(***************************************************************************)
RootCause(call) ==
    IF call.op = "encrypt" THEN "InvalidSaltLength"
    ELSE LET decoded == B64Decode(call.blob)
             n       == Len(decoded.bytes) - SaltLen
         IN  IF decoded.exc # "" \/ Len(decoded.bytes) < SaltLen
             THEN "InvalidEncoding"
             ELSE IF n = 0 \/ n % BlockSize # 0 THEN "InvalidCiphertextLength"
             ELSE IF call.r.msg = "Invalid PKCS#7 padding" THEN "InvalidPadding"
             ELSE "InvalidUtf8"

Failure(call) ==
    [root |-> RootCause(call),
     error |-> <<call.r.exc, call.r.cause, call.r.msg>>]

Ambiguous(call) == call.op = "decrypt" /\ call.blob = <<>>

Failures(call) ==
    IF call # NoCall /\ call.r.ret = None /\ ~Ambiguous(call)
    THEN {Failure(call)} ELSE {}

EncryptShort == EncryptFrom({<<>>, AsciiText(16)})

ReturnLogged ==
    /\ encCall # NoCall \/ decCall # NoCall
    /\ encCall' = NoCall
    /\ encCall2' = NoCall
    /\ decCall' = NoCall
    /\ surfaced' = IF Cardinality(surfaced) < MaxLog
                   THEN surfaced \cup Failures(encCall) \cup Failures(decCall)
                   ELSE surfaced
    /\ UNCHANGED <<configVars, verifyVars, taskVars, netVars>>

NextLogged == EncryptShort \/ DecryptBlob \/ DecryptText \/ ReturnLogged

SpecLogged == Init /\ [][NextLogged]_vars

(***************************************************************************)
(* Configuration (config.py).  Config() reads the process environment; the *)
(* module keeps one Config object in _ConfigSingleton._instance.  A Config *)
(* object is a record whose id is its identity (Python's `is`): the id of  *)
(* a new object is the number of objects created so far, plus one.         *)
(* Strings of the environment other than passwords are TLA+ strings.       *)
(***************************************************************************)
Getenv(e, name, default) == IF IsNone(e[name]) THEN default ELSE Get(e[name])

Lower(value) ==
    CASE value = "TRUE" -> "true"
      [] value = "True" -> "true"
      [] value = "YES" -> "yes"
      [] value = "On" -> "on"
      [] OTHER -> value

ParseBool(value) == Lower(value) \in {"true", "yes", "1", "on"}

\* _setup_database: KAPPARI_DB_PATH, else the platform's default location
\* if a database is there (default_db), else None.
DbPath(e) ==
    IF ~IsNone(e.KAPPARI_DB_PATH) /\ Get(e.KAPPARI_DB_PATH) # ""
    THEN e.KAPPARI_DB_PATH
    ELSE e.default_db

\* The outcome of Config(): the ValueError of _setup_database, or the object.
Config(e, id) ==
    IF IsNone(DbPath(e))
    THEN [exc |-> "ValueError", obj |-> None]
    ELSE [exc |-> "",
          obj |-> Some([id |-> id,
                        db_path |-> Get(DbPath(e)),
                        purchase_data_key |->
                            Getenv(e, "KAPPARI_PURCHASE_DATA_KEY", <<80, 68>>),
                        purchase_signature_key |->
                            Getenv(e, "KAPPARI_PURCHASE_SIGNATURE_KEY", <<80, 83>>),
                        api_base_url |->
                            Getenv(e, "KAPPARI_API_BASE_URL",
                                   "https://www.paprikaapp.com/api/v2"),
                        dry_run |-> ParseBool(Getenv(e, "KAPPARI_DRY_RUN", "false"))])]

ConfigCall(exc, ret, inst, n) ==
    [exc |-> exc, ret |-> ret, instance |-> inst, created |-> n]

\* _ConfigSingleton.reload_instance: the outcome, the new value of _instance
\* and the number of objects created.  When Config() raises, the assignment
\* does not happen.
reload_instance(inst, e, n) ==
    LET c == Config(e, n + 1)
    IN  IF c.exc # "" THEN ConfigCall(c.exc, None, inst, n)
        ELSE ConfigCall("", c.obj, c.obj, n + 1)

GetInstanceAlwaysNew(inst, e, n) == reload_instance(inst, e, n)

\* _ConfigSingleton.get_instance.
get_instance(inst, e, n) ==
    IF IsNone(inst) THEN reload_instance(inst, e, n)
    ELSE ConfigCall("", inst, inst, n)

get_config(inst, e, n) == get_instance(inst, e, n)

reload_config(inst, e, n) == reload_instance(inst, e, n)

DbFile == "Paprika.sqlite"

Environs ==
    [KAPPARI_DB_PATH : {None, Some(""), Some(DbFile), Some("missing.sqlite")},
     default_db : {None, Some(DbFile)},
     KAPPARI_PURCHASE_DATA_KEY : {None, Some(<<80, 83>>)},
     KAPPARI_PURCHASE_SIGNATURE_KEY : {None, Some(<<80, 68>>), Some(<<80, 83, 84>>)},
     KAPPARI_DRY_RUN : {None, Some("True"), Some("0")},
     KAPPARI_API_BASE_URL : {None, Some("paprikaapp.com/api")}]

(***************************************************************************)
(* json.loads, for the texts the model stores: no whitespace, no escapes   *)
(* in strings, no nesting; an object or array of scalars, or a scalar      *)
(* (string, integer, true, false, null).  Anything else is a               *)
(* JSONDecodeError, as it is for json.loads on the texts drawn here.       *)
(***************************************************************************)
IsJsonString(s) ==
    /\ Len(s) >= 2
    /\ s[1] = 34
    /\ s[Len(s)] = 34
    /\ \A i \in 2..(Len(s) - 1) : s[i] # 34 /\ s[i] # 92 /\ s[i] >= 32

IsJsonInt(s) ==
    /\ Len(s) > 0
    /\ \A i \in 1..Len(s) : s[i] >= 48 /\ s[i] <= 57
    /\ (Len(s) > 1 => s[1] # 48)

\* A scalar value with its Python type and truth value.
JsonScalar(s) ==
    IF IsJsonString(s)
    THEN [ok |-> TRUE, type |-> "str", truthy |-> Len(s) > 2]
    ELSE IF IsJsonInt(s)
    THEN [ok |-> TRUE, type |-> "int", truthy |-> s # <<48>>]
    ELSE IF s = <<116, 114, 117, 101>>
    THEN [ok |-> TRUE, type |-> "bool", truthy |-> TRUE]
    ELSE IF s = <<102, 97, 108, 115, 101>>
    THEN [ok |-> TRUE, type |-> "bool", truthy |-> FALSE]
    ELSE IF s = <<110, 117, 108, 108>>
    THEN [ok |-> TRUE, type |-> "NoneType", truthy |-> FALSE]
    ELSE [ok |-> FALSE, type |-> "", truthy |-> FALSE]

\* Position i of s is outside every string: an even number of quotes before.
OutsideString(s, i) == Cardinality({j \in 1..(i - 1) : s[j] = 34}) % 2 = 0

\* The positions of the character c outside strings, in order.
Separators(s, c) ==
    LET IsSep(i) == s[i] = c /\ OutsideString(s, i)
    IN  SelectSeq([i \in 1..Len(s) |-> i], IsSep)

\* The parts of s between the commas outside strings.
JsonItems(s) ==
    LET cuts == <<0>> \o Separators(s, 44) \o <<Len(s) + 1>>
    IN  [k \in 1..(Len(cuts) - 1) |-> Slice(s, cuts[k] + 1, cuts[k + 1] - 1)]

\* One member of an object: "key":scalar.
JsonMember(s) ==
    LET colons == Separators(s, 58)
        key    == Slice(s, 1, colons[1] - 1)
        value  == JsonScalar(Slice(s, colons[1] + 1, Len(s)))
    IN  IF Len(colons) # 1 \/ ~IsJsonString(key) \/ ~value.ok
        THEN [ok |-> FALSE, key |-> <<>>, value |-> value]
        ELSE [ok |-> TRUE, key |-> Slice(key, 2, Len(key) - 1), value |-> value]

JsonError == [ok |-> FALSE, type |-> "", members |-> <<>>]

JsonLoads(s) ==
    LET inner == Slice(s, 2, Len(s) - 1)
        items == JsonItems(inner)
    IN  IF Len(s) >= 2 /\ s[1] = 123 /\ s[Len(s)] = 125
        THEN IF inner = <<>> THEN [ok |-> TRUE, type |-> "dict", members |-> <<>>]
             ELSE IF \A k \in 1..Len(items) : JsonMember(items[k]).ok
             THEN [ok |-> TRUE, type |-> "dict",
                   members |-> [k \in 1..Len(items) |-> JsonMember(items[k])]]
             ELSE JsonError
        ELSE IF Len(s) >= 2 /\ s[1] = 91 /\ s[Len(s)] = 93
        THEN IF inner = <<>> \/ \A k \in 1..Len(items) : JsonScalar(items[k]).ok
             THEN [ok |-> TRUE, type |-> "list", members |-> <<>>]
             ELSE JsonError
        ELSE IF JsonScalar(s).ok
        THEN [ok |-> TRUE, type |-> JsonScalar(s).type, members |-> <<>>]
        ELSE JsonError

\* dict.get(key): the value of the last member with that key, or None.
DictGet(j, key) ==
    LET Has(k) == j.members[k].key = key
        hits   == SelectSeq([k \in 1..Len(j.members) |-> k], Has)
    IN  IF hits = <<>> THEN None ELSE Some(j.members[hits[Len(hits)]].value)

\* license_json.get(key, "N/A")[:n] if license_json.get(key) else "N/A":
\* a TypeError when the value is true or a non-zero integer.
PreviewRaises(j, key) ==
    LET v == DictGet(j, key)
    IN  ~IsNone(v) /\ Get(v).truthy /\ Get(v).type # "str"

\* Lines 272-286: the exception that parsing and displaying the license
\* raises, "" if none.
DisplayLicense(decrypted_data) ==
    LET license_json == JsonLoads(decrypted_data)
    IN  IF ~license_json.ok THEN "json.JSONDecodeError"
        ELSE IF license_json.type # "dict" THEN "AttributeError"
        ELSE IF PreviewRaises(license_json, <<101, 109, 97, 105, 108>>)
                \/ PreviewRaises(license_json, <<107, 101, 121>>)
        THEN "TypeError"
        ELSE ""

(***************************************************************************)
(* The external record store: the SQLite file at DbFile, if it exists, its *)
(* purchases table, if it has one, and the rows of the table.  A field of  *)
(* a row is None (SQL NULL) or Some(text).                                 *)
(***************************************************************************)
PathExists(store, path) == path = DbFile /\ store.exists

SelectPurchasesDeleting(store) ==
    [row |-> IF store.rows = <<>> THEN None ELSE Some(store.rows[1]),
     store |-> [store EXCEPT !.rows = <<>>]]

\* cursor.execute("SELECT ...") and fetchone(): the first row, if any, and
\* the store afterwards.
SelectPurchases(store) ==
    [row |-> IF store.rows = <<>> THEN None ELSE Some(store.rows[1]),
     store |-> store]

ReadResult(exc, msg, row, store, open) ==
    [exc |-> exc, msg |-> msg, row |-> row, store |-> store, open |-> open]

\* finally: conn.close(), line 222.
Closed(read) == [read EXCEPT !.open = FALSE]

\* The try block, lines 209-219, entered with the connection open.
ReadRows(store) ==
    IF ~store.table
    THEN ReadResult("sqlite3.OperationalError", "no such table: purchases",
                    None, store, TRUE)
    ELSE LET sel == SelectPurchases(store)
         IN  IF IsNone(sel.row)
             THEN ReadResult("Exception", "No purchase data found in database",
                             None, sel.store, TRUE)
             ELSE ReadResult("", "", sel.row, sel.store, TRUE)

\* What the call leaves: the exception raised ("" when it returns), the
\* row returned, the store, and whether its connection is still open.
read_encrypted_data_from_db(db_path, store) ==
    IF ~PathExists(store, db_path)
    THEN ReadResult("FileNotFoundError", "Database not found", None, store, FALSE)
    ELSE Closed(ReadRows(store))

(***************************************************************************)
(* perform_round_trip_test.  The outcome records what the caller gets      *)
(* (ret: Some(TRUE), Some(FALSE), or None with the exception that left     *)
(* the function in exc), the step that ended the run, the error caught     *)
(* there, and for each field the calls made on it and the line reported    *)
(* for it ("EXACT MATCH", "MISMATCH", or "" if the run ended before).      *)
(***************************************************************************)
NoField == [call |-> None, decrypted |-> NoCall, args |-> None,
            reencrypted |-> NoCall, report |-> ""]

Caught(r) == [exc |-> r.exc, cause |-> r.cause, msg |-> r.msg]

NoError == [exc |-> "", cause |-> "", msg |-> ""]

VerifyResult(ret, exc, step, caught, data, signature, store) ==
    [ret |-> ret, exc |-> exc, step |-> step, caught |-> caught,
     data |-> data, signature |-> signature, store |-> store]

ReencryptArgsFreshSalt(plaintext, password, salt) ==
    [plaintext |-> plaintext, password |-> password, salt |-> None]

\* The arguments of a re-encryption (lines 314-318, 331-335).
ReencryptArgs(plaintext, password, salt) ==
    [plaintext |-> plaintext, password |-> password, salt |-> Some(salt)]

Reencrypt(args, random) ==
    encrypt_paprika_data(args.plaintext, args.password, args.salt, random)

\* encrypted_..._original == re_encrypted_... (lines 348-349).
Matches(original, re_encrypted) == original = re_encrypted

Report(matches) == IF matches THEN "EXACT MATCH" ELSE "MISMATCH"

OverallEither(data_matches, signature_matches) == data_matches \/ signature_matches

\* data_matches and signature_matches (line 381).
Overall(data_matches, signature_matches) == data_matches /\ signature_matches

\* What was done on a field: the arguments of the decrypt call and its
\* outcome, the arguments of the encrypt call and its outcome, the report.
FieldOf(blob, password, decrypted, args, reencrypted, report) ==
    [call |-> Some([blob |-> blob, password |-> password]),
     decrypted |-> decrypted, args |-> args, reencrypted |-> reencrypted,
     report |-> report]

Failed(step, caught, data, signature, store) ==
    VerifyResult(Some(FALSE), "", step, caught, data, signature, store)

DataField(config, row, decrypted, args, reencrypted, report) ==
    FieldOf(Get(row.data), config.purchase_data_key,
            decrypted, args, reencrypted, report)

SigField(config, row, decrypted, args, reencrypted, report) ==
    FieldOf(Get(row.signature), config.purchase_signature_key,
            decrypted, args, reencrypted, report)

\* Lines 341-381: the outcome of the second re-encryption, the comparison.
CompareStep(config, row, store, dec_data, dec_sig, data_args, sig_args, re_data, re_sig) ==
    LET data_matches      == Matches(Get(row.data), Get(re_data.ret).value)
        signature_matches == Matches(Get(row.signature), Get(re_sig.ret).value)
    IN  IF re_sig.ret = None
        THEN Failed("encrypt_signature", Caught(re_sig),
                    DataField(config, row, dec_data, Some(data_args), re_data, ""),
                    SigField(config, row, dec_sig, Some(sig_args), re_sig, ""),
                    store)
        ELSE VerifyResult(Some(Overall(data_matches, signature_matches)), "",
                          "compare", NoError,
                          DataField(config, row, dec_data, Some(data_args),
                                    re_data, Report(data_matches)),
                          SigField(config, row, dec_sig, Some(sig_args),
                                   re_sig, Report(signature_matches)),
                          store)

\* Lines 324-335: the outcome of the first re-encryption; the signature is
\* re-encrypted under its own salt.
EncryptSignatureStep(config, row, store, dec_data, dec_sig, data_args, sig_args, re_data, random) ==
    IF re_data.ret = None
    THEN Failed("encrypt_data", Caught(re_data),
                DataField(config, row, dec_data, Some(data_args), re_data, ""),
                SigField(config, row, dec_sig, None, NoCall, ""),
                store)
    ELSE CompareStep(config, row, store, dec_data, dec_sig, data_args, sig_args,
                     re_data, Reencrypt(sig_args, random[2]))

\* Lines 306-318: the outcome of decrypting the signature; the data is
\* re-encrypted under its own salt.
EncryptDataStep(config, row, store, dec_data, dec_sig, random) ==
    IF dec_sig.ret = None
    THEN Failed("decrypt_signature", Caught(dec_sig),
                DataField(config, row, dec_data, None, NoCall, ""),
                SigField(config, row, dec_sig, None, NoCall, ""),
                store)
    ELSE EncryptSignatureStep(
             config, row, store, dec_data, dec_sig,
             ReencryptArgs(Get(dec_data.ret).value, config.purchase_data_key,
                           Get(dec_data.ret).salt),
             ReencryptArgs(Get(dec_sig.ret).value,
                           config.purchase_signature_key,
                           Get(dec_sig.ret).salt),
             Reencrypt(ReencryptArgs(Get(dec_data.ret).value,
                                     config.purchase_data_key,
                                     Get(dec_data.ret).salt),
                       random[1]),
             random)

\* Lines 288-299: the outcome of decrypting and displaying the license; the
\* signature is decrypted.
DecryptSignatureStep(config, row, store, dec_data, display, random) ==
    IF dec_data.ret = None
    THEN Failed("decrypt_data", Caught(dec_data),
                DataField(config, row, dec_data, None, NoCall, ""), NoField,
                store)
    ELSE IF display # ""
    THEN Failed("decrypt_data", [exc |-> display, cause |-> "", msg |-> ""],
                DataField(config, row, dec_data, None, NoCall, ""), NoField,
                store)
    ELSE EncryptDataStep(config, row, store, dec_data,
                         decrypt_paprika_data(Get(row.signature),
                                              config.purchase_signature_key),
                         random)

\* Lines 272-286: the decrypted license is parsed and displayed.
DecryptDataStep(config, row, store, dec_data, random) ==
    DecryptSignatureStep(config, row, store, dec_data,
                         IF dec_data.ret = None THEN ""
                         ELSE DisplayLicense(Get(dec_data.ret).value),
                         random)

\* Lines 248-270: the outcome of reading the record; the data is decrypted.
ReadStep(config, read, random) ==
    IF read.exc # ""
    THEN Failed("read", [exc |-> read.exc, cause |-> "", msg |-> read.msg],
                NoField, NoField, read.store)
    ELSE IF IsNone(Get(read.row).data) \/ IsNone(Get(read.row).signature)
    THEN Failed("read", [exc |-> "TypeError", cause |-> "",
                         msg |-> "object of type 'NoneType' has no len()"],
                NoField, NoField, read.store)
    ELSE DecryptDataStep(config, Get(read.row), read.store,
                         decrypt_paprika_data(Get(Get(read.row).data),
                                              config.purchase_data_key),
                         random)

\* cfg is the outcome of get_config() (line 238), random the two values the
\* random source would return next.  Each step hands what it produced to
\* the next one.
perform_round_trip_test(cfg, store, random) ==
    IF cfg.exc # ""
    THEN VerifyResult(None, cfg.exc, "get_config", NoError, NoField, NoField, store)
    ELSE ReadStep(Get(cfg.ret),
                  read_encrypted_data_from_db(Get(cfg.ret).db_path, store),
                  random)

\* main(): the exit status, or the exception that leaves main.  cfg is the
\* outcome of its own get_config() (line 391); the verifier then gets the
\* same Config object from its call.
MainResult(run) ==
    [status |-> IF run.ret = Some(TRUE) THEN Some(0) ELSE Some(1),
     exc |-> "", run |-> run, store |-> run.store]

main(cfg, store, random) ==
    IF cfg.exc # ""
    THEN [status |-> None, exc |-> cfg.exc, run |-> NoCall, store |-> store]
    ELSE IF ~PathExists(store, Get(cfg.ret).db_path)
    THEN [status |-> Some(1), exc |-> "", run |-> NoCall, store |-> store]
    ELSE MainResult(perform_round_trip_test(cfg, store, random))

(***************************************************************************)
(* Inputs of the verifier: the environment the process starts in and the   *)
(* store it finds.  A genuine blob is what the reference algorithm returns *)
(* for a plaintext, a password and a salt.  Data plaintexts are license    *)
(* objects and texts that are not; signature plaintexts are plain texts.   *)
(***************************************************************************)
Genuine(plaintext, password, salt) ==
    Get(encrypt_paprika_data(plaintext, password, Some(salt), salt).ret).value

\* {}   {"email":"a@b","key":"K1"}   {"email":5}   []   and a text.
DataPlaintexts ==
    { <<123, 125>>,
      <<123, 34, 101, 109, 97, 105, 108, 34, 58, 34, 97, 64, 98, 34, 44,
        34, 107, 101, 121, 34, 58, 34, 75, 49, 34, 125>>,
      <<123, 34, 101, 109, 97, 105, 108, 34, 58, 53, 125>>,
      <<91, 93>>,
      AsciiText(5) }

\* A text whose blob under "PS" and the salt of 32 bytes 48 has a last block
\* that, decrypted with the key derived from "PST", again ends in valid
\* padding in front of which the bytes are UTF-8.  (AES has such texts for
\* about one wrong password in two million.)
TwoKeyText == <<24, 57, 42, 37, 76, 13, 82, 95, 112, 67, 114, 35, 20>>

SignaturePlaintexts == {<<>>, AsciiText(16), AsciiText(20), TwoKeyText}

StoreSalt == [i \in 1..SaltLen |-> (11 * i + 3) % 256]

\* A genuine blob followed by a line feed: it decodes to the same bytes.
WithNewline(blob) == blob \o <<OtherChar>>

DataFields ==
    {None}
    \cup {Some(Genuine(P, <<80, 68>>, StoreSalt)) : P \in DataPlaintexts}
    \cup {Some(Genuine(<<123, 125>>, <<80, 83>>, StoreSalt)),
          Some(WithNewline(Genuine(<<123, 125>>, <<80, 68>>, StoreSalt))),
          Some(<<13, 14>>)}

SignatureFields ==
    {Some(Genuine(P, <<80, 83>>, Repeat(48, SaltLen))) : P \in SignaturePlaintexts}
    \cup {Some(Genuine(AsciiText(16), <<80, 68>>, Repeat(48, SaltLen))),
          Some(WithNewline(Genuine(<<>>, <<80, 83>>, Repeat(48, SaltLen)))),
          Some(<<64, 64, 64, 64>>),
          None}

Rows == [product_id : {1}, data : DataFields, signature : SignatureFields]

Stores ==
    {NoStore,
     [exists |-> TRUE, table |-> FALSE, rows |-> <<>>],
     [exists |-> TRUE, table |-> TRUE, rows |-> <<>>]}
    \cup {[exists |-> TRUE, table |-> TRUE, rows |-> <<row>>] : row \in Rows}

VerifyEnvirons ==
    {e \in Environs :
        /\ e.KAPPARI_DRY_RUN = None
        /\ e.KAPPARI_API_BASE_URL = None
        /\ e.KAPPARI_DB_PATH \in {None, Some(DbFile), Some("missing.sqlite")}
        /\ (e.default_db # None => e.KAPPARI_DB_PATH = None)}

InitVerify ==
    /\ InitCodec
    /\ InitConfig
    /\ InitTasks
    /\ InitNet
    /\ environ \in VerifyEnvirons
    /\ db \in Stores
    /\ verify = NoCall

\* A call of perform_round_trip_test() by a caller that has not loaded the
\* configuration itself.
Verify ==
    /\ verify = NoCall
    /\ \E R \in RandomSalts \X RandomSalts :
       \E cfg \in {get_config(instance, environ, created)} :
       \E r \in {perform_round_trip_test(cfg, db, R)} :
           /\ instance' = cfg.instance
           /\ created' = cfg.created
           /\ verify' = [op |-> "perform_round_trip_test", r |-> r]
           /\ db' = r.store
    /\ UNCHANGED <<environ, cfgCall, held, codecVars, taskVars, netVars>>

\* A run of the script.
Main ==
    /\ verify = NoCall
    /\ \E R \in RandomSalts \X RandomSalts :
       \E cfg \in {get_config(instance, environ, created)} :
       \E r \in {main(cfg, db, R)} :
           /\ instance' = cfg.instance
           /\ created' = cfg.created
           /\ verify' = [op |-> "main", r |-> r]
           /\ db' = r.store
    /\ UNCHANGED <<environ, cfgCall, held, codecVars, taskVars, netVars>>

VerifyReturn ==
    /\ verify # NoCall
    /\ verify' = NoCall
    /\ UNCHANGED <<db, codecVars, configVars, taskVars, netVars>>

NextVerify == Verify \/ Main \/ VerifyReturn

SpecVerify == InitVerify /\ [][NextVerify]_vars

(***************************************************************************)
(* Claims.                                                                 *)
(***************************************************************************)
EncReturned == encCall # NoCall /\ encCall.r.ret # None

EncRet == Get(encCall.r.ret)

DecOfEncrypted ==
    /\ decCall # NoCall
    /\ decCall.from = "encrypt"
    /\ decCall.password = encCall.password

\* C1: round-trip identity.  Decrypting the blob an encryption returned, with
\* the same password, returns exactly the plaintext that was encrypted and
\* the salt the encryption returned (supplied or freshly generated).
C1_RoundTrip ==
    DecOfEncrypted =>
        decCall.r.ret = Some([value |-> encCall.plaintext, salt |-> EncRet.salt])

\* A 16-byte plaintext encrypted under a fresh salt has been decrypted.
C1_Witness ==
    /\ DecOfEncrypted
    /\ IsNone(encCall.salt)
    /\ Len(Utf8Encode(encCall.plaintext)) = 16
    /\ decCall.r.ret # None

SaltSupplied(call) == ~IsNone(call.salt) /\ Len(Get(call.salt)) = SaltLen

\* C2: salt determinism.  Two encryptions of the same (plaintext, password,
\* 32-byte salt) have the same outcome, the same Base64 text, and return the
\* supplied salt, whatever the random source holds at either call.
C2_SaltDeterminism ==
    (encCall2 # NoCall /\ SaltSupplied(encCall)) =>
        /\ encCall.r.ret # None
        /\ encCall2.r.ret # None
        /\ Get(encCall2.r.ret).value = EncRet.value
        /\ EncRet.salt = Get(encCall.salt)
        /\ Get(encCall2.r.ret).salt = Get(encCall.salt)

\* The second call was made with another state of the random source.
C2_Witness ==
    /\ encCall2 # NoCall
    /\ SaltSupplied(encCall)
    /\ encCall2.random # encCall.random
    /\ Get(encCall2.r.ret).value = EncRet.value

SaltWrongLength(call) == ~IsNone(call.salt) /\ Len(Get(call.salt)) # SaltLen

\* C3: salt length enforcement.  A supplied salt whose length is not 32 makes
\* encrypt_paprika_data raise the salt-length ValueError before any library
\* call (no key derivation, no encryption); nothing is returned.
C3_SaltLengthEnforced ==
    (encCall # NoCall /\ SaltWrongLength(encCall)) =>
        /\ encCall.r.ret = None
        /\ encCall.r.exc = "ValueError"
        /\ encCall.r.msg = "Salt must be exactly 32 bytes"
        /\ encCall.r.trace = <<>>
        /\ encCall.r.padded = <<>>

\* A 33-byte salt has been rejected.
C3_Witness ==
    /\ encCall # NoCall
    /\ ~IsNone(encCall.salt)
    /\ Len(Get(encCall.salt)) = 33
    /\ encCall.r.exc = "ValueError"

\* C4: padding is always added.  With L the UTF-8 length of the plaintext,
\* the padded plaintext is the L bytes followed by p = 16 - (L mod 16) bytes
\* equal to p; 1 <= p <= 16, the padded length is a multiple of 16 greater
\* than L, and it is L + 16 when L is a multiple of 16.
C4_PaddingAlwaysAdded ==
    EncReturned =>
        LET bytes  == Utf8Encode(encCall.plaintext)
            L      == Len(bytes)
            padded == encCall.r.padded
            p      == Len(padded) - L
        IN  /\ p = 16 - (L % 16)
            /\ 1 <= p /\ p <= 16
            /\ Len(padded) % 16 = 0
            /\ Len(padded) > L
            /\ SubSeq(padded, 1, L) = bytes
            /\ \A i \in (L + 1)..Len(padded) : padded[i] = p
            /\ (L % 16 = 0 => Len(padded) = L + 16)

\* A plaintext of exactly 32 bytes has been encrypted.
C4_Witness ==
    /\ EncReturned
    /\ Len(Utf8Encode(encCall.plaintext)) = 32
    /\ Len(encCall.r.padded) = 48

\* C5: blob format.  The returned Base64 text decodes to the returned salt
\* (32 bytes) followed by N = 16 * (L div 16 + 1) bytes of ciphertext, L the
\* UTF-8 length of the plaintext.
C5_BlobFormat ==
    EncReturned =>
        LET decoded == B64Decode(EncRet.value)
            L       == Len(Utf8Encode(encCall.plaintext))
            N       == Len(decoded.bytes) - 32
        IN  /\ decoded.exc = ""
            /\ Len(EncRet.salt) = 32
            /\ SubSeq(decoded.bytes, 1, 32) = EncRet.salt
            /\ N = 16 * ((L \div 16) + 1)
            /\ N > 0 /\ N % 16 = 0

\* A 17-byte plaintext gave a blob of 32 + 32 bytes.
C5_Witness ==
    /\ EncReturned
    /\ Len(Utf8Encode(encCall.plaintext)) = 17
    /\ Len(B64Decode(EncRet.value).bytes) = 64

\* C6: without a salt, the call consults the random source first, returns the
\* 32 bytes it gave and derives the key from them (the blob is the one the
\* same call gives when that salt is supplied); with a 32-byte salt supplied
\* the random source is not consulted.
C6_FreshSalt ==
    encCall # NoCall =>
        /\ IsNone(encCall.salt) =>
              /\ encCall.r.ret # None
              /\ Len(EncRet.salt) = 32
              /\ EncRet.salt = encCall.random
              /\ Head(encCall.r.trace) = "get_random_bytes"
              /\ EncRet.value =
                    Get(encrypt_paprika_data(encCall.plaintext, encCall.password,
                            Some(EncRet.salt), encCall.random).ret).value
              /\ SubSeq(B64Decode(EncRet.value).bytes, 1, 32) = encCall.random
        /\ SaltSupplied(encCall) =>
              \A i \in 1..Len(encCall.r.trace) :
                  encCall.r.trace[i] # "get_random_bytes"

\* An encryption without a salt has returned.
C6_Witness ==
    /\ EncReturned
    /\ IsNone(encCall.salt)
    /\ EncRet.salt = encCall.random

\* The padding test of the claim, on a non-empty decrypted block sequence.
ClaimedPaddingOk(dp) ==
    LET p == dp[Len(dp)]
    IN  /\ 1 <= p /\ p <= 16
        /\ \A i \in 1..p : dp[Len(dp) - i + 1] = p

\* C7: decrypt_paprika_data accepts a decrypted block sequence only if its
\* last byte p is in 1..16 and the last p bytes all equal p; otherwise it
\* fails with the invalid-padding error and returns nothing; when it returns,
\* the plaintext is the sequence without exactly its last p bytes.
C7_PaddingValidation ==
    (decCall # NoCall /\ decCall.r.padded # <<>>) =>
        LET dp == decCall.r.padded
            p  == dp[Len(dp)]
        IN  /\ ~ClaimedPaddingOk(dp) =>
                  /\ decCall.r.ret = None
                  /\ decCall.r.exc = "Exception"
                  /\ decCall.r.cause = "ValueError"
                  /\ decCall.r.msg = "Invalid PKCS#7 padding"
            /\ decCall.r.ret # None =>
                  /\ ClaimedPaddingOk(dp)
                  /\ Utf8Encode(Get(decCall.r.ret).value) = SubSeq(dp, 1, Len(dp) - p)
            /\ ClaimedPaddingOk(dp) => decCall.r.msg # "Invalid PKCS#7 padding"

\* A block sequence whose last byte is in range but whose padding bytes
\* differ has been rejected.
C7_Witness ==
    /\ decCall # NoCall
    /\ decCall.r.padded # <<>>
    /\ LastByte(decCall.r.padded) \in 1..16
    /\ ~ClaimedPaddingOk(decCall.r.padded)
    /\ decCall.r.msg = "Invalid PKCS#7 padding"

(***************************************************************************)
(* The error kind a surfaced error stands for, read as favourably as the   *)
(* code allows: by the exception that decrypt_paprika_data wrapped.  (The  *)
(* class that reaches the caller is Exception in every case.)              *)
(***************************************************************************)
KindOf(r) ==
    IF r.msg = "Salt must be exactly 32 bytes" THEN "InvalidSaltLength"
    ELSE IF r.cause = "binascii.Error" THEN "InvalidEncoding"
    ELSE IF r.msg = "string argument should contain only ASCII characters"
         THEN "InvalidEncoding"
    ELSE IF r.msg = "Data must be padded to 16 byte boundary in CBC mode"
         THEN "InvalidCiphertextLength"
    ELSE IF r.cause = "IndexError" THEN "InvalidCiphertextLength"
    ELSE IF r.msg = "Invalid PKCS#7 padding" THEN "InvalidPadding"
    ELSE IF r.cause = "UnicodeDecodeError" THEN "InvalidUtf8"
    ELSE "none"

DecDecoded == B64Decode(decCall.blob)

\* C8: an input that cannot be Base64-decoded, or that decodes to fewer than
\* 32 bytes, makes decrypt_paprika_data fail with the InvalidEncoding kind
\* (the empty string may also give InvalidCiphertextLength); no plaintext is
\* returned.
C8_InvalidEncoding ==
    (decCall # NoCall /\ (DecDecoded.exc # "" \/ Len(DecDecoded.bytes) < 32)) =>
        /\ decCall.r.ret = None
        /\ \/ KindOf(decCall.r) = "InvalidEncoding"
           \/ decCall.blob = <<>> /\ KindOf(decCall.r) = "InvalidCiphertextLength"

\* C9: when the bytes after the 32-byte salt number zero or not a multiple of
\* 16, decrypt_paprika_data fails with the InvalidCiphertextLength kind, the
\* failure comes before the padding is inspected, and no plaintext is
\* returned.
C9_InvalidCiphertextLength ==
    (/\ decCall # NoCall
     /\ DecDecoded.exc = ""
     /\ Len(DecDecoded.bytes) >= 32
     /\ (Len(DecDecoded.bytes) - 32) % 16 # 0 \/ Len(DecDecoded.bytes) = 32) =>
        /\ decCall.r.ret = None
        /\ KindOf(decCall.r) = "InvalidCiphertextLength"
        /\ \A i \in 1..Len(decCall.r.trace) : decCall.r.trace[i] # "padding"

\* C10: the error that reaches the caller tells the root cause: no two failed
\* calls with different root causes surface the same error.
C10_DistinctKinds ==
    \A a \in surfaced, b \in surfaced : a.error = b.error => a.root = b.root

(***************************************************************************)
(* Claims about the round-trip verifier.                                   *)
(***************************************************************************)
VerifyRan == verify # NoCall /\ verify.op = "perform_round_trip_test"

StoredRow == db.rows[1]

\* The salt a blob carries: the first 32 bytes of its Base64 decoding.
BlobSalt(blob) == SubSeq(B64Decode(blob).bytes, 1, SaltLen)

FieldContract(f, original, password) ==
    /\ f.call # None => Get(f.call) = [blob |-> original, password |-> password]
    /\ f.args # None =>
           /\ f.decrypted.ret # None
           /\ Get(f.args).plaintext = Get(f.decrypted.ret).value
           /\ Get(f.args).password = password
           /\ Get(f.args).salt = Some(BlobSalt(original))
           /\ f.reencrypted.ret # None =>
                  Get(f.reencrypted.ret).salt = BlobSalt(original)
    /\ f.report \in {"", "EXACT MATCH", "MISMATCH"}
    /\ f.report # "" =>
           /\ f.args # None
           /\ f.reencrypted.ret # None
           /\ (f.report = "EXACT MATCH"
                  <=> Get(f.reencrypted.ret).value = original)

\* C11: on each field the verifier decrypts the stored blob with the field's
\* password, re-encrypts the plaintext it got with the same password and the
\* salt carried by that blob (not a fresh one, not the other field's), and
\* reports EXACT MATCH for the field exactly when the re-encrypted Base64
\* text equals the stored blob character for character.
C11_FieldRoundTrip ==
    VerifyRan =>
        /\ FieldContract(verify.r.data, Get(StoredRow.data),
                         Get(instance).purchase_data_key)
        /\ FieldContract(verify.r.signature, Get(StoredRow.signature),
                         Get(instance).purchase_signature_key)

\* Both fields were re-encrypted, with different salts; the data field
\* matched and the signature field, stored with a trailing line feed, did not.
C11_Witness ==
    /\ VerifyRan
    /\ verify.r.step = "compare"
    /\ verify.r.data.report = "EXACT MATCH"
    /\ verify.r.signature.report = "MISMATCH"
    /\ Get(verify.r.data.args).salt # Get(verify.r.signature.args).salt

HasRow == VerifyRan /\ verify.r.step # "get_config" /\ verify.r.step # "read"

\* The blobs in the range of encrypt_paprika_data for each password.
GenuineBlobs ==
    [W \in {<<80, 68>>, <<80, 83>>, <<80, 83, 84>>} |->
        {Genuine(P, W, S) : P \in DataPlaintexts \cup SignaturePlaintexts,
                            S \in {StoreSalt, Repeat(48, SaltLen)}}]

BothGenuine ==
    /\ HasRow
    /\ Get(StoredRow.data) \in GenuineBlobs[Get(instance).purchase_data_key]
    /\ Get(StoredRow.signature)
           \in GenuineBlobs[Get(instance).purchase_signature_key]

\* C12: when both stored fields are blobs that encrypt_paprika_data returns
\* for the field's password (for some plaintext and salt), the verifier
\* returns true.
C12_GenuineVerifies == BothGenuine => verify.r.ret = Some(TRUE)

\* The blob was encrypted under a password other than the one given.
WrongPassword(blob, password) ==
    /\ blob \notin GenuineBlobs[password]
    /\ \E W \in DOMAIN GenuineBlobs : blob \in GenuineBlobs[W]

DataWrong ==
    /\ HasRow
    /\ WrongPassword(Get(StoredRow.data), Get(instance).purchase_data_key)

\* The data field passed step 2 and the signature has the wrong password.
SignatureWrong ==
    /\ HasRow
    /\ verify.r.step # "decrypt_data"
    /\ WrongPassword(Get(StoredRow.signature),
                     Get(instance).purchase_signature_key)

CaughtInvalidPadding ==
    /\ verify.r.caught.exc = "Exception"
    /\ verify.r.caught.cause = "ValueError"
    /\ verify.r.caught.msg = "Invalid PKCS#7 padding"

WrongField == IF DataWrong THEN verify.r.data ELSE verify.r.signature

FailureSteps ==
    {"read", "decrypt_data", "decrypt_signature", "encrypt_data",
     "encrypt_signature"}

\* C14: no exception leaves the verifier or the script: every call of
\* perform_round_trip_test returns a boolean, false when a step failed, and
\* every run of main returns an exit status.
C14_NoEscape ==
    /\ VerifyRan =>
           /\ verify.r.ret # None
           /\ verify.r.exc = ""
           /\ verify.r.step \in FailureSteps => verify.r.ret = Some(FALSE)
    /\ (verify # NoCall /\ verify.op = "main") =>
           /\ verify.r.status # None
           /\ verify.r.exc = ""

\* The field was re-encrypted and the text obtained equals the stored one.
FieldMatches(f, original) ==
    /\ f.reencrypted # NoCall
    /\ f.reencrypted.ret # None
    /\ Get(f.reencrypted.ret).value = original

BothMatch ==
    /\ FieldMatches(verify.r.data, Get(StoredRow.data))
    /\ FieldMatches(verify.r.signature, Get(StoredRow.signature))

\* C15: the verifier returns true only if the data field and the signature
\* field both match their re-encryptions; when it has read a record of
\* which a field fails or does not match, it returns false.
C15_OverallNeedsBoth ==
    /\ (VerifyRan /\ verify.r.ret = Some(TRUE)) => HasRow /\ BothMatch
    /\ (HasRow /\ ~BothMatch) => verify.r.ret = Some(FALSE)

\* The data field matched, the signature field did not, the result is false.
C15_Witness ==
    /\ HasRow
    /\ verify.r.step = "compare"
    /\ FieldMatches(verify.r.data, Get(StoredRow.data))
    /\ ~FieldMatches(verify.r.signature, Get(StoredRow.signature))
    /\ verify.r.ret = Some(FALSE)

\* C16: the verifier only reads the store: no step of a verification, a
\* successful, a mismatching or a failing one, changes the database file,
\* its purchases table or the data and signature fields of its record.
C16_StoreUnchanged == [][db' = db]_vars

\* A verification has read a record and failed, and the record is there.
C16_Witness ==
    /\ HasRow
    /\ verify.r.ret = Some(FALSE)
    /\ Len(db.rows) = 1
    /\ StoredRow.data # None

(***************************************************************************)
(* Concurrent calls of the codec.  Each of two tasks (threads) runs one    *)
(* call at a time, in the steps of the code; a step reads and writes the   *)
(* local variables of its call.  `shared` is everything a step could reach *)
(* outside its call: data kept by the module or by the library between     *)
(* calls, as a function from passwords to derived key material.  The code  *)
(* keeps none (the cipher object and the key are locals).                  *)
(***************************************************************************)
Tasks == {1, 2}

Local(op, pc, text, password, salt) ==
    [op |-> op, pc |-> pc, text |-> text, password |-> password, salt |-> salt,
     random |-> None, salt_used |-> <<>>, key_iv |-> <<>>, padded |-> <<>>,
     body |-> <<>>, r |-> NoCall]

Done(l, r) == [l EXCEPT !.pc = "done", !.r = r]

DeriveKeyCached(password, salt, module) ==
    IF password \in DOMAIN module
    THEN [key_iv |-> module[password], module |-> module]
    ELSE [key_iv |-> PBKDF2(Utf8Encode(password), salt, DkLen),
          module |-> (password :> PBKDF2(Utf8Encode(password), salt, DkLen))
                         @@ module]

\* PBKDF2(password.encode("utf-8"), salt, 48, ...): the key material, and
\* the data outside the call afterwards (untouched).
DeriveKey(password, salt, module) ==
    [key_iv |-> PBKDF2(Utf8Encode(password), salt, DkLen), module |-> module]

\* Lines 76-79.
EncSalt(l, random) ==
    IF SaltRejected(l.salt)
    THEN Done(l, Raised("ValueError", "", "Salt must be exactly 32 bytes",
                        <<>>, <<>>))
    ELSE [l EXCEPT !.pc = "derive",
                   !.random = IF IsNone(l.salt) THEN Some(random) ELSE None,
                   !.salt_used = ChooseSalt(l.salt, random).salt]

\* Lines 86-98 and 158-167: the locals and the data outside the call.
Derive(l, module) ==
    IF ~Utf8Encodable(l.password)
    THEN [local |-> Done(l, IF l.op = "encrypt"
                            THEN Raised("UnicodeEncodeError", "",
                                        "surrogates not allowed", <<>>, <<>>)
                            ELSE DecryptionFailed("UnicodeEncodeError",
                                        "surrogates not allowed", <<>>, <<>>)),
          module |-> module]
    ELSE [local |-> [l EXCEPT !.pc = "cipher",
                              !.key_iv = DeriveKey(l.password, l.salt_used,
                                                   module).key_iv],
          module |-> DeriveKey(l.password, l.salt_used, module).module]

\* Lines 101-112.
EncCipher(l) ==
    IF ~Utf8Encodable(l.text)
    THEN Done(l, Raised("UnicodeEncodeError", "", "surrogates not allowed",
                        <<>>, <<>>))
    ELSE [l EXCEPT !.pc = "encode",
                   !.padded = Pkcs7Pad(Utf8Encode(l.text)),
                   !.body = Get(CbcEncrypt(Slice(l.key_iv, 1, KeyLen),
                                           Slice(l.key_iv, KeyLen + 1, DkLen),
                                           Pkcs7Pad(Utf8Encode(l.text))))]

\* Lines 115-120.
EncEncode(l) ==
    Done(l, Returned(B64Encode(EncryptedData(l.salt_used, l.body)),
                     l.salt_used, <<>>, l.padded))

\* Lines 148-152.
DecDecode(l) ==
    LET decoded == B64Decode(l.text)
    IN  IF decoded.exc # ""
        THEN Done(l, DecryptionFailed(decoded.exc, decoded.msg, <<>>, <<>>))
        ELSE [l EXCEPT !.pc = "derive",
                       !.salt_used = SaltOf(decoded.bytes),
                       !.body = CiphertextOf(decoded.bytes)]

\* Lines 169-170.
DecCipher(l) ==
    LET decrypted == CbcDecrypt(Slice(l.key_iv, 1, KeyLen),
                                Slice(l.key_iv, KeyLen + 1, DkLen), l.body)
    IN  IF IsNone(decrypted)
        THEN Done(l, DecryptionFailed("ValueError",
                 "Data must be padded to 16 byte boundary in CBC mode",
                 <<>>, <<>>))
        ELSE [l EXCEPT !.pc = "unpad", !.padded = Get(decrypted)]

\* Lines 174-184.
DecUnpad(l) ==
    IF Len(l.padded) = 0
    THEN Done(l, DecryptionFailed("IndexError", "index out of range", <<>>, <<>>))
    ELSE IF ~PaddingValid(l.padded)
    THEN Done(l, DecryptionFailed("ValueError", "Invalid PKCS#7 padding",
                                  <<>>, l.padded))
    ELSE IF IsNone(Utf8Decode(Unpad(l.padded)))
    THEN Done(l, DecryptionFailed("UnicodeDecodeError",
                                  "'utf-8' codec can't decode", <<>>, l.padded))
    ELSE Done(l, Returned(Get(Utf8Decode(Unpad(l.padded))), l.salt_used,
                          <<>>, l.padded))

TaskPlaintexts == {<<>>, AsciiText(16)}

TaskSalts == {None, Some(Repeat(48, SaltLen)), Some(Repeat(48, 33))}

TaskBlobs ==
    {Genuine(AsciiText(16), <<80, 68>>, StoreSalt),
     Genuine(<<>>, <<80, 83>>, Repeat(48, SaltLen)),
     <<13, 14>>}

Running(t, op, pc) ==
    tasks[t] # NoCall /\ tasks[t].op = op /\ tasks[t].pc = pc

OtherVars == <<codecVars, configVars, verifyVars, netVars>>

StartEncrypt ==
    /\ \E t \in Tasks, P \in TaskPlaintexts, W \in Passwords, S \in TaskSalts :
           /\ tasks[t] = NoCall
           /\ tasks' = [tasks EXCEPT ![t] = Local("encrypt", "salt", P, W, S)]
    /\ UNCHANGED <<shared, OtherVars>>

StartDecrypt ==
    /\ \E t \in Tasks, B \in TaskBlobs, W \in Passwords :
           /\ tasks[t] = NoCall
           /\ tasks' = [tasks EXCEPT ![t] = Local("decrypt", "decode", B, W, None)]
    /\ UNCHANGED <<shared, OtherVars>>

EncSaltStep ==
    /\ \E t \in Tasks, R \in RandomSalts :
           /\ Running(t, "encrypt", "salt")
           /\ tasks' = [tasks EXCEPT ![t] = EncSalt(tasks[t], R)]
    /\ UNCHANGED <<shared, OtherVars>>

DeriveStep ==
    /\ \E t \in Tasks :
           /\ tasks[t] # NoCall
           /\ tasks[t].pc = "derive"
           /\ tasks' = [tasks EXCEPT ![t] = Derive(tasks[t], shared).local]
           /\ shared' = Derive(tasks[t], shared).module
    /\ UNCHANGED OtherVars

EncCipherStep ==
    /\ \E t \in Tasks :
           /\ Running(t, "encrypt", "cipher")
           /\ tasks' = [tasks EXCEPT ![t] = EncCipher(tasks[t])]
    /\ UNCHANGED <<shared, OtherVars>>

EncEncodeStep ==
    /\ \E t \in Tasks :
           /\ Running(t, "encrypt", "encode")
           /\ tasks' = [tasks EXCEPT ![t] = EncEncode(tasks[t])]
    /\ UNCHANGED <<shared, OtherVars>>

DecDecodeStep ==
    /\ \E t \in Tasks :
           /\ Running(t, "decrypt", "decode")
           /\ tasks' = [tasks EXCEPT ![t] = DecDecode(tasks[t])]
    /\ UNCHANGED <<shared, OtherVars>>

DecCipherStep ==
    /\ \E t \in Tasks :
           /\ Running(t, "decrypt", "cipher")
           /\ tasks' = [tasks EXCEPT ![t] = DecCipher(tasks[t])]
    /\ UNCHANGED <<shared, OtherVars>>

DecUnpadStep ==
    /\ \E t \in Tasks :
           /\ Running(t, "decrypt", "unpad")
           /\ tasks' = [tasks EXCEPT ![t] = DecUnpad(tasks[t])]
    /\ UNCHANGED <<shared, OtherVars>>

\* The caller takes the result; the task is free for another call.
Finish ==
    /\ \E t \in Tasks :
           /\ tasks[t] # NoCall
           /\ tasks[t].pc = "done"
           /\ tasks' = [tasks EXCEPT ![t] = NoCall]
    /\ UNCHANGED <<shared, OtherVars>>

NextTasks ==
    \/ StartEncrypt \/ StartDecrypt \/ EncSaltStep \/ DeriveStep
    \/ EncCipherStep \/ EncEncodeStep \/ DecDecodeStep \/ DecCipherStep
    \/ DecUnpadStep \/ Finish

SpecTasks == Init /\ [][NextTasks]_vars

\* What the call made by a finished task returns when it runs alone.
Alone(l) ==
    IF l.op = "encrypt"
    THEN encrypt_paprika_data(l.text, l.password, l.salt,
                              IF IsNone(l.random) THEN <<>> ELSE Get(l.random))
    ELSE decrypt_paprika_data(l.text, l.password)

Observable(r) == [ret |-> r.ret, exc |-> r.exc, cause |-> r.cause, msg |-> r.msg]

\* C17: in every interleaving of the steps of concurrent encrypt and
\* decrypt calls, a call that ends has the outcome (value and salt, or
\* error) of the same call run alone with the same arguments and the same
\* random salt, and the calls leave nothing outside their locals.
C17_CallsIndependent ==
    /\ shared = <<>>
    /\ \A t \in Tasks :
           (tasks[t] # NoCall /\ tasks[t].pc = "done") =>
               Observable(tasks[t].r) = Observable(Alone(tasks[t]))

\* A call has returned while a call with the same password and another
\* salt was between its key derivation and its end.
C17_Witness ==
    /\ tasks[1] # NoCall /\ tasks[2] # NoCall
    /\ tasks[1].pc = "done"
    /\ tasks[1].r.ret # None
    /\ tasks[2].pc \in {"cipher", "encode", "unpad"}
    /\ tasks[1].password = tasks[2].password
    /\ tasks[1].salt_used # tasks[2].salt_used

(***************************************************************************)
(* No partial success.                                                     *)
(***************************************************************************)
CodecCalls == {c \in {encCall, encCall2, decCall} : c # NoCall}

FailedEmpty(c) == c.r.ret = None /\ c.r.exc # ""

\* A complete blob: Base64 of the 32-byte salt followed by one ciphertext
\* byte per byte of the padded plaintext, which holds the whole plaintext.
CompleteBlob(c) ==
    LET pair    == Get(c.r.ret)
        decoded == B64Decode(pair.value)
        text    == Utf8Encode(c.plaintext)
    IN  /\ Len(pair.salt) = SaltLen
        /\ decoded.exc = ""
        /\ Slice(decoded.bytes, 1, SaltLen) = pair.salt
        /\ Len(decoded.bytes) = SaltLen + Len(c.r.padded)
        /\ Len(c.r.padded) % BlockSize = 0
        /\ Slice(c.r.padded, 1, Len(text)) = text
        /\ Len(c.r.padded) > Len(text)

\* A complete plaintext: every decrypted byte before the padding, and the
\* blob's 32-byte salt.
CompletePlaintext(c) ==
    LET pair == Get(c.r.ret)
        n    == Len(c.r.padded)
    IN  /\ Len(pair.salt) = SaltLen
        /\ pair.salt = Slice(B64Decode(c.blob).bytes, 1, SaltLen)
        /\ n > 0
        /\ Utf8Encodable(pair.value)
        /\ Utf8Encode(pair.value)
               = Slice(c.r.padded, 1, n - LastByte(c.r.padded))
        /\ ClaimedPaddingOk(c.r.padded)

SucceededComplete(c) ==
    /\ c.r.ret # None
    /\ c.r.exc = ""
    /\ IF c.op = "encrypt" THEN CompleteBlob(c) ELSE CompletePlaintext(c)

\* C18: every call of encrypt_paprika_data or decrypt_paprika_data ends
\* either with a complete (value, salt) pair or with an error and no value:
\* a failing call returns no blob, no truncated plaintext and no salt.
C18_NoPartialSuccess ==
    \A c \in CodecCalls : FailedEmpty(c) \/ SucceededComplete(c)

\* A decryption that failed with decrypted bytes in hand, next to an
\* encryption that succeeded.
C18_Witness ==
    /\ decCall # NoCall
    /\ FailedEmpty(decCall)
    /\ decCall.r.padded # <<>>
    /\ encCall # NoCall
    /\ SucceededComplete(encCall)

(***************************************************************************)
(* Callers of get_config() and reload_config().  held is the sequence of   *)
(* the Config objects the calls have returned so far, each with the call   *)
(* that returned it; cfgCall is the last call, with the objects returned   *)
(* before it.  The process may change its environment between calls.       *)
(***************************************************************************)
MaxConfigCalls == 4

ConfigEnvirons ==
    {e \in Environs :
        /\ e.KAPPARI_DB_PATH # Some("")
        /\ e.default_db = None
        /\ e.KAPPARI_PURCHASE_DATA_KEY = None
        /\ e.KAPPARI_PURCHASE_SIGNATURE_KEY = None
        /\ e.KAPPARI_DRY_RUN # Some("0")
        /\ e.KAPPARI_API_BASE_URL = None}

SetEnviron ==
    /\ environ' \in ConfigEnvirons \ {environ}
    /\ UNCHANGED <<instance, created, cfgCall, held>>
    /\ UNCHANGED <<codecVars, verifyVars, taskVars, netVars>>

ConfigCalled(op, r) ==
    /\ Len(held) < MaxConfigCalls
    /\ instance' = r.instance
    /\ created' = r.created
    /\ cfgCall' = [op |-> op, before |-> held, r |-> r]
    /\ held' = IF r.exc = "" THEN Append(held, [op |-> op, obj |-> Get(r.ret)])
               ELSE held
    /\ UNCHANGED environ
    /\ UNCHANGED <<codecVars, verifyVars, taskVars, netVars>>

GetConfig == ConfigCalled("get_config", get_config(instance, environ, created))

ReloadConfig ==
    ConfigCalled("reload_config", reload_config(instance, environ, created))

NextConfig == SetEnviron \/ GetConfig \/ ReloadConfig

SpecConfig == Init /\ [][NextConfig]_vars

ConfigReturned == cfgCall # NoCall /\ cfgCall.r.exc = ""

\* C19: a get_config that returns after an earlier call returned gives the
\* object that call returned (the previous get_config's, or the one of the
\* reload_config in between); a reload_config that returns gives an object
\* that is none of the objects returned before.
C19_Singleton ==
    ConfigReturned =>
        LET before == cfgCall.before
            obj    == Get(cfgCall.r.ret)
        IN  /\ cfgCall.op = "get_config" /\ before # <<>>
                => obj = before[Len(before)].obj
            /\ cfgCall.op = "reload_config"
                => \A i \in 1..Len(before) : before[i].obj.id # obj.id
            /\ instance = Some(obj)

\* get_config, reload_config, get_config in that order: the third call
\* returned the reloaded object, not the first one.
C19_Witness ==
    /\ ConfigReturned
    /\ cfgCall.op = "get_config"
    /\ Len(cfgCall.before) = 2
    /\ cfgCall.before[1].op = "get_config"
    /\ cfgCall.before[2].op = "reload_config"
    /\ Get(cfgCall.r.ret) = cfgCall.before[2].obj
    /\ Get(cfgCall.r.ret) # cfgCall.before[1].obj

(***************************************************************************)
(* Auth (kappari/auth.py).  An Auth object holds the Config that           *)
(* get_config() returned when it was built, the license data and the       *)
(* signature (None until decrypt_license_data sets them).  Its client is   *)
(* the one NetworkClient of the network_client module.                     *)
(***************************************************************************)
\* The characters of a str as Base64 sees them, and the str of Base64 text.
B64Sym(cp) ==
    IF cp >= 65 /\ cp <= 90 THEN cp - 65
    ELSE IF cp >= 97 /\ cp <= 122 THEN cp - 71
    ELSE IF cp >= 48 /\ cp <= 57 THEN cp + 4
    ELSE IF cp = 43 THEN 62
    ELSE IF cp = 47 THEN 63
    ELSE IF cp = 61 THEN PadChar
    ELSE IF cp >= 128 THEN NonAsciiChar
    ELSE OtherChar

B64Text(str) == [i \in 1..Len(str) |-> B64Sym(str[i])]

B64CodePoint(sym) ==
    IF sym < 26 THEN sym + 65
    ELSE IF sym < 52 THEN sym + 71
    ELSE IF sym < 62 THEN sym - 4
    ELSE IF sym = 62 THEN 43
    ELSE IF sym = 63 THEN 47
    ELSE 61

B64Str(text) == [i \in 1..Len(text) |-> B64CodePoint(text[i])]

\* The str of an exception message.
StrOf(msg) ==
    CASE msg = "Invalid padding" ->
           <<73, 110, 118, 97, 108, 105, 100, 32, 112, 97, 100, 100, 105,
           110, 103>>
      [] msg = "Incorrect padding" ->
           <<73, 110, 99, 111, 114, 114, 101, 99, 116, 32, 112, 97, 100,
           100, 105, 110, 103>>
      [] msg = "Invalid base64-encoded string" ->
           <<73, 110, 118, 97, 108, 105, 100, 32, 98, 97, 115, 101, 54, 52,
           45, 101, 110, 99, 111, 100, 101, 100, 32, 115, 116, 114, 105,
           110, 103>>
      [] msg = "string argument should contain only ASCII characters" ->
           <<115, 116, 114, 105, 110, 103, 32, 97, 114, 103, 117, 109, 101,
           110, 116, 32, 115, 104, 111, 117, 108, 100, 32, 99, 111, 110,
           116, 97, 105, 110, 32, 111, 110, 108, 121, 32, 65, 83, 67, 73,
           73, 32, 99, 104, 97, 114, 97, 99, 116, 101, 114, 115>>
      [] msg = "Data must be padded to 16 byte boundary in CBC mode" ->
           <<68, 97, 116, 97, 32, 109, 117, 115, 116, 32, 98, 101, 32, 112,
           97, 100, 100, 101, 100, 32, 116, 111, 32, 49, 54, 32, 98, 121,
           116, 101, 32, 98, 111, 117, 110, 100, 97, 114, 121, 32, 105, 110,
           32, 67, 66, 67, 32, 109, 111, 100, 101>>
      [] msg = "index out of range" ->
           <<105, 110, 100, 101, 120, 32, 111, 117, 116, 32, 111, 102, 32,
           114, 97, 110, 103, 101>>
      [] msg = "'utf-8' codec can't decode" ->
           <<39, 117, 116, 102, 45, 56, 39, 32, 99, 111, 100, 101, 99, 32,
           99, 97, 110, 39, 116, 32, 100, 101, 99, 111, 100, 101>>
      [] msg = "surrogates not allowed" ->
           <<115, 117, 114, 114, 111, 103, 97, 116, 101, 115, 32, 110, 111,
           116, 32, 97, 108, 108, 111, 119, 101, 100>>
      [] msg = "argument should be a bytes-like object or ASCII string, not 'NoneType'" ->
           <<97, 114, 103, 117, 109, 101, 110, 116, 32, 115, 104, 111, 117,
           108, 100, 32, 98, 101, 32, 97, 32, 98, 121, 116, 101, 115, 45,
           108, 105, 107, 101, 32, 111, 98, 106, 101, 99, 116, 32, 111, 114,
           32, 65, 83, 67, 73, 73, 32, 115, 116, 114, 105, 110, 103, 44, 32,
           110, 111, 116, 32, 39, 78, 111, 110, 101, 84, 121, 112, 101, 39>>
      [] OTHER -> <<63>>

\* "Decryption failed"
DecryptionFailedPrefix ==
    <<68, 101, 99, 114, 121, 112, 116, 105, 111, 110, 32, 102, 97, 105, 108,
    101, 100>>

StartsWith(str, prefix) ==
    Len(str) >= Len(prefix) /\ Slice(str, 1, Len(prefix)) = prefix

\* f"Decryption failed: {e}"
FailedText(msg) == DecryptionFailedPrefix \o <<58, 32>> \o StrOf(msg)

\* Auth._decrypt_data(encrypted_b64, password): the str it returns, the
\* plaintext or a "Decryption failed" message.  It never raises.
Auth_decrypt_data(encrypted_b64, password) ==
    LET decoded          == B64Decode(Get(encrypted_b64))
        salt             == SaltOf(decoded.bytes)
        ciphertext       == CiphertextOf(decoded.bytes)
        key_iv           == PBKDF2(Utf8Encode(password), salt, DkLen)
        key              == Slice(key_iv, 1, KeyLen)
        iv               == Slice(key_iv, KeyLen + 1, DkLen)
        decrypted        == CbcDecrypt(key, iv, ciphertext)
        decrypted_padded == Get(decrypted)
        plaintext        == Utf8Decode(Unpad(decrypted_padded))
    IN  IF IsNone(encrypted_b64)
        THEN FailedText("argument should be a bytes-like object or ASCII string, not 'NoneType'")
        ELSE IF decoded.exc # ""
        THEN FailedText(decoded.msg)
        ELSE IF ~Utf8Encodable(password)
        THEN FailedText("surrogates not allowed")
        ELSE IF IsNone(decrypted)
        THEN FailedText("Data must be padded to 16 byte boundary in CBC mode")
        ELSE IF Len(decrypted_padded) = 0
        THEN FailedText("index out of range")
        ELSE IF ~PaddingValid(decrypted_padded)
        THEN FailedText("Invalid padding")
        ELSE IF IsNone(plaintext)
        THEN FailedText("'utf-8' codec can't decode")
        ELSE Get(plaintext)

\* Auth(): config = get_config(), client = get_client().
Auth(cfg) == [config |-> cfg, license_data |-> None, signature |-> None]

\* Lines 66-76: the signature as it is kept.
KeptSignature(signature_raw) ==
    IF B64Decode(B64Text(signature_raw)).exc = ""
    THEN signature_raw
    ELSE B64Str(B64Encode(Utf8Encode(signature_raw)))

AuthResult(exc, msg, a, store, open) ==
    [exc |-> exc, msg |-> msg, auth |-> a, store |-> store, open |-> open]

\* Lines 58-80: the signature, once the license data is kept.
SignatureStep(a, store, signature_raw) ==
    IF StartsWith(signature_raw, DecryptionFailedPrefix)
    THEN AuthResult("Exception", "Failed to decrypt signature", a, store, TRUE)
    ELSE AuthResult("", "", [a EXCEPT !.signature = Some(KeptSignature(signature_raw))],
                    store, FALSE)

\* Lines 49-56: license_data is assigned before it is examined.
LicenseStep(a, row, store, license_data) ==
    IF StartsWith(license_data, DecryptionFailedPrefix)
    THEN AuthResult("Exception", "Failed to decrypt license data",
                    [a EXCEPT !.license_data = Some(license_data)], store, TRUE)
    ELSE SignatureStep([a EXCEPT !.license_data = Some(license_data)], store,
                       Auth_decrypt_data(row.signature,
                                         a.config.purchase_signature_key))

\* Lines 39-47: the first row of purchases.
RowStep(a, sel) ==
    IF IsNone(sel.row)
    THEN AuthResult("Exception", "No purchase data found in database",
                    a, sel.store, TRUE)
    ELSE LicenseStep(a, Get(sel.row), sel.store,
                     Auth_decrypt_data(Get(sel.row).data,
                                       a.config.purchase_data_key))

\* Auth.decrypt_license_data(): the exception raised ("" when it returns
\* True), the Auth object and the store afterwards, and whether the
\* connection it opened is still open.
Auth_decrypt_license_data(a, store) ==
    IF ~PathExists(store, a.config.db_path)
    THEN AuthResult("Exception", "Database not found", a, store, FALSE)
    ELSE IF ~store.table
    THEN AuthResult("sqlite3.OperationalError", "no such table: purchases",
                    a, store, TRUE)
    ELSE RowStep(a, SelectPurchases(store))

\* Lines 133-140: what reading the license raises, "" if nothing.
LicenseJsonRaises(license_json) ==
    IF ~license_json.ok THEN "Exception"
    ELSE IF license_json.type # "dict" THEN "AttributeError"
    ELSE ""

AuthenticateRaisesUnparsed(a) ==
    IF IsNone(a.license_data) \/ IsNone(a.signature) THEN "Exception" ELSE ""

\* Auth.authenticate up to the call of the client: the exception it raises
\* before that call, "" if it makes the call.
AuthenticateRaises(a) ==
    IF IsNone(a.license_data) \/ IsNone(a.signature)
       \/ Get(a.license_data) = <<>> \/ Get(a.signature) = <<>>
    THEN "Exception"
    ELSE LicenseJsonRaises(JsonLoads(Get(a.license_data)))

(***************************************************************************)
(* NetworkClient (network_client.py).  The module builds one client when   *)
(* it is imported; the client keeps the Config that get_config() returned  *)
(* then.  A request is what reaches the server; reply is what the server   *)
(* side does with it: None when the transport fails                        *)
(* (requests.exceptions.RequestException), else Some(response).            *)
(***************************************************************************)
NetworkClient(cfg) == [config |-> cfg]

\* requests rejects a URL without a scheme (MissingSchema).
HasScheme(api_base_url) == api_base_url # "paprikaapp.com/api"

\* files is the multipart form of a POST (None when there is none); of the
\* login form the model keeps the data and signature fields.
Request(method, c, endpoint, files) ==
    [method |-> method, api_base_url |-> c.config.api_base_url,
     endpoint |-> endpoint, files |-> files]

\* What a method of the client gives: the exception that leaves it, its
\* return value, and the requests it sent.
NetResult(exc, ret, requests) == [exc |-> exc, ret |-> ret, sent |-> requests]

\* NetworkClient.post: req.prepare() comes before the dry-run check and
\* outside any try.
NetworkClient_post(c, endpoint, files, reply) ==
    IF ~HasScheme(c.config.api_base_url)
    THEN NetResult("requests.exceptions.MissingSchema", None, <<>>)
    ELSE IF c.config.dry_run
    THEN NetResult("", None, <<>>)
    ELSE NetResult("", reply, <<Request("POST", c, endpoint, files)>>)

\* NetworkClient.get: the dry-run check comes first; requests.get is inside
\* the try, where MissingSchema is a RequestException.
NetworkClient_get(c, endpoint, reply) ==
    IF c.config.dry_run
    THEN NetResult("", None, <<>>)
    ELSE IF ~HasScheme(c.config.api_base_url)
    THEN NetResult("", None, <<>>)
    ELSE NetResult("", reply, <<Request("GET", c, endpoint, None)>>)

\* The token in a response, lines 316-339: None, or the exception that
\* reading the body raises.
TokenOf(response) ==
    LET body == response.body
    IN  IF response.status_code # 200 THEN NetResult("", None, <<>>)
        ELSE IF ~body.json THEN NetResult("", None, <<>>)
        ELSE IF body.type \notin {"dict", "list"}
        THEN NetResult("TypeError", None, <<>>)
        ELSE IF body.type = "list" \/ IsNone(body.result)
        THEN NetResult("", None, <<>>)
        ELSE IF Get(body.result).type # "dict"
        THEN NetResult("TypeError", None, <<>>)
        ELSE NetResult("", Get(body.result).token, <<>>)

\* Lines 311-339: what authenticate makes of the outcome of its post.
TokenResult(response) ==
    IF response.exc # "" \/ IsNone(response.ret)
    THEN response
    ELSE [TokenOf(Get(response.ret)) EXCEPT !.sent = response.sent]

LoginForm(license_data, signature) ==
    Some([data |-> license_data, signature |-> signature])

NetworkClient_authenticate(c, license_data, signature, reply) ==
    TokenResult(NetworkClient_post(c, "account/login/",
                                   LoginForm(license_data, signature), reply))

NetworkClient_make_authenticated_request(c, endpoint, method, reply) ==
    IF method = "GET" THEN NetworkClient_get(c, endpoint, reply)
    ELSE IF method = "POST" THEN NetworkClient_post(c, endpoint, None, reply)
    ELSE NetResult("ValueError", None, <<>>)

\* Auth.authenticate(email, password).
AuthenticateChecked(raises, a, c, reply) ==
    IF raises # ""
    THEN NetResult(raises, None, <<>>)
    ELSE NetworkClient_authenticate(c, Get(a.license_data), Get(a.signature),
                                    reply)

Auth_authenticate(a, c, reply) ==
    AuthenticateChecked(AuthenticateRaises(a), a, c, reply)

(***************************************************************************)
(* Callers of the network client and of Auth.  client is the client of the *)
(* network_client module (None until the module is imported), auth the     *)
(* Auth object of the caller, sent the requests that have reached the      *)
(* server, netCall the last call with its outcome and the dry_run flag     *)
(* of the Config the called object holds.                                  *)
(***************************************************************************)
MaxSent == 1
MaxReloads == 1
MaxDecrypts == 2

Body(json, type, result) == [json |-> json, type |-> type, result |-> result]

\* {"result":{"token":"jwt"}}  {"result":{}}  {"result":null}  {}  []  5
\* and a body that is not JSON.
Bodies ==
    {Body(TRUE, "dict", Some([type |-> "dict", token |-> Some("jwt")])),
     Body(TRUE, "dict", Some([type |-> "dict", token |-> None])),
     Body(TRUE, "dict", Some([type |-> "NoneType", token |-> None])),
     Body(TRUE, "dict", None),
     Body(TRUE, "list", None),
     Body(TRUE, "int", None),
     Body(FALSE, "", None)}

Replies ==
    {None}
    \cup {Some([status_code |-> 200, body |-> b]) : b \in Bodies}
    \cup {Some([status_code |-> 401, body |-> b]) :
              b \in {Body(TRUE, "dict", None), Body(FALSE, "", None)}}

\* For the methods that hand the response on unread.
PlainReplies == {None, Some([status_code |-> 200, body |-> Body(FALSE, "", None)])}

NetEnvirons ==
    {e \in Environs :
        /\ e.KAPPARI_DB_PATH = Some(DbFile)
        /\ e.default_db = None
        /\ e.KAPPARI_PURCHASE_DATA_KEY = None
        /\ e.KAPPARI_PURCHASE_SIGNATURE_KEY = None
        /\ e.KAPPARI_DRY_RUN # Some("0")}

LicenseRow(P, W) ==
    [product_id |-> 1, data |-> Some(Genuine(P, W, StoreSalt)),
     signature |-> Some(Genuine(AsciiText(16), <<80, 83>>, Repeat(48, SaltLen)))]

\* No database; a license object; a list; a text that is not JSON; a data
\* field under another password.
NetStores ==
    {NoStore}
    \cup {[exists |-> TRUE, table |-> TRUE, rows |-> <<LicenseRow(P, <<80, 68>>)>>] :
              P \in {<<123, 34, 101, 109, 97, 105, 108, 34, 58, 34, 97, 64, 98,
                       34, 44, 34, 107, 101, 121, 34, 58, 34, 75, 49, 34, 125>>,
                     <<91, 93>>, AsciiText(5)}}
    \cup {[exists |-> TRUE, table |-> TRUE,
           rows |-> <<LicenseRow(<<123, 125>>, <<80, 83>>)>>]}

InitNetwork ==
    /\ InitCodec
    /\ InitConfig
    /\ InitTasks
    /\ InitNet
    /\ environ \in NetEnvirons
    /\ db \in NetStores
    /\ verify = NoCall

NetOtherVars == <<codecVars, verifyVars, taskVars>>

SetNetEnviron ==
    /\ environ' \in NetEnvirons \ {environ}
    /\ UNCHANGED <<instance, created, cfgCall, held, db, verify>>
    /\ UNCHANGED <<codecVars, taskVars, netVars>>

\* import network_client: kappari_client = NetworkClient().  When
\* get_config() raises, the import fails and there is no client.
ImportClient ==
    /\ client = None
    /\ \E cfg \in {get_config(instance, environ, created)} :
           /\ instance' = cfg.instance
           /\ created' = cfg.created
           /\ client' = IF cfg.exc = "" THEN Some(NetworkClient(Get(cfg.ret)))
                        ELSE None
    /\ UNCHANGED <<environ, cfgCall, held, auth, sent, netCall, origin>>
    /\ UNCHANGED NetOtherVars

\* Auth(), by a caller whose Auth object is not of the current Config.
NewAuth ==
    /\ client # None
    /\ \E cfg \in {get_config(instance, environ, created)} :
           /\ cfg.exc = ""
           /\ IF auth = None THEN TRUE ELSE Get(auth).config # Get(cfg.ret)
           /\ instance' = cfg.instance
           /\ created' = cfg.created
           /\ auth' = Some(Auth(Get(cfg.ret)))
    /\ origin' = NoOrigin
    /\ UNCHANGED <<environ, cfgCall, held, client, sent, netCall>>
    /\ UNCHANGED NetOtherVars

\* reload_config(), by a caller that has changed the environment.
Reload ==
    /\ Len(held) < MaxReloads
    /\ ReloadConfig

NetCall(op, dry_run, r) == [op |-> op, dry_run |-> dry_run, r |-> r]

\* A call of NetworkClient.authenticate: also what the server side does with
\* the request, should one reach it.
LoginCall(dry_run, reply, r) ==
    [op |-> "NetworkClient.authenticate", dry_run |-> dry_run, r |-> r,
     reply |-> reply]

\* A call of a method of Auth: also the Auth object and the database when
\* the call began, the origin of the object's fields then, the Auth object
\* afterwards, and whether a connection the call opened is still open.
AuthCall(op, a, store, r, after, open) ==
    [op |-> op, dry_run |-> a.config.dry_run, r |-> r, before |-> a,
     store |-> store, origin |-> origin, after |-> after, open |-> open]

\* Line 49 is reached once a row has been fetched; line 69 or 73 when
\* nothing was raised before.
LicenseAssigned(r) ==
    r.msg \in {"", "Failed to decrypt license data", "Failed to decrypt signature"}

OriginAfter(r) ==
    [calls |-> origin.calls + 1,
     license_data |-> IF LicenseAssigned(r) THEN origin.calls + 1
                      ELSE origin.license_data,
     signature |-> IF r.exc = "" THEN origin.calls + 1 ELSE origin.signature]

DecryptLicense ==
    /\ auth # None
    /\ origin.calls < MaxDecrypts
    /\ \E r \in {Auth_decrypt_license_data(Get(auth), db)} :
           /\ auth' = Some(r.auth)
           /\ db' = r.store
           /\ origin' = OriginAfter(r)
           /\ netCall' = AuthCall("Auth.decrypt_license_data", Get(auth), db,
                                  NetResult(r.exc, None, <<>>), r.auth, r.open)
    /\ UNCHANGED <<configVars, client, sent, verify, codecVars, taskVars>>

\* A call of a method of the client or of Auth.authenticate, with its outcome.
Called(call) ==
    /\ Len(sent) < MaxSent
    /\ sent' = sent \o call.r.sent
    /\ netCall' = call
    /\ UNCHANGED <<configVars, client, auth, origin>>
    /\ UNCHANGED NetOtherVars

Post ==
    /\ client # None
    /\ \E reply \in PlainReplies :
           Called(NetCall("NetworkClient.post", Get(client).config.dry_run,
                          NetworkClient_post(Get(client), "sync/recipes/",
                                             None, reply)))

GetRequest ==
    /\ client # None
    /\ \E reply \in PlainReplies :
           Called(NetCall("NetworkClient.get", Get(client).config.dry_run,
                          NetworkClient_get(Get(client), "sync/recipes/", reply)))

ClientAuthenticate ==
    /\ client # None
    /\ \E reply \in Replies :
           Called(LoginCall(Get(client).config.dry_run, reply,
                            NetworkClient_authenticate(Get(client), <<123, 125>>,
                                                       <<65, 65, 65, 65>>, reply)))

MakeAuthenticatedRequest ==
    /\ client # None
    /\ \E reply \in PlainReplies, method \in {"GET", "POST", "PUT"} :
           Called(NetCall("NetworkClient.make_authenticated_request",
                          Get(client).config.dry_run,
                          NetworkClient_make_authenticated_request(
                              Get(client), "sync/recipes/", method, reply)))

AuthAuthenticate ==
    /\ auth # None
    /\ \E reply \in Replies :
           Called(AuthCall("Auth.authenticate", Get(auth), db,
                           Auth_authenticate(Get(auth), Get(client), reply),
                           Get(auth), FALSE))

NextNetwork ==
    \/ SetNetEnviron
    \/ Reload
    \/ ImportClient
    \/ NewAuth
    \/ DecryptLicense
    \/ Post
    \/ GetRequest
    \/ ClientAuthenticate
    \/ MakeAuthenticatedRequest
    \/ AuthAuthenticate

SpecNetwork == InitNetwork /\ [][NextNetwork]_vars

(***************************************************************************)
(* Dry-run mode.                                                           *)
(***************************************************************************)
DryRunCalls ==
    {"NetworkClient.post", "NetworkClient.get", "NetworkClient.authenticate",
     "Auth.authenticate"}

\* The errors with which Auth.authenticate refuses, in any mode, to call the
\* client: license data missing, not JSON, or not a JSON object.
Refused(call) ==
    call.op = "Auth.authenticate" /\ call.r.exc \in {"Exception", "AttributeError"}

\* C20: a call of NetworkClient.post, NetworkClient.get,
\* NetworkClient.authenticate or Auth.authenticate made while dry_run is true
\* in the Config of the object called returns None and sends no request to
\* the server.  (Auth.authenticate is taken over the calls that get as far
\* as the client.)
C20_DryRunSendsNothing ==
    /\ netCall # NoCall
    /\ netCall.op \in DryRunCalls
    /\ netCall.dry_run
    /\ ~Refused(netCall)
    => /\ netCall.r.exc = ""
       /\ netCall.r.ret = None
       /\ netCall.r.sent = <<>>


(***************************************************************************)
(* One Auth object over a purchases table that the application rewrites    *)
(* between the calls.                                                      *)
(***************************************************************************)
PurchaseRow(P, W, signature) ==
    [product_id |-> 1, data |-> Some(Genuine(P, W, StoreSalt)),
     signature |-> signature]

\* Besides NetStores: an empty table; a license object whose signature
\* field is NULL; a data field whose plaintext is the text
\* "Decryption failed".
AuthStores ==
    NetStores
    \cup {[exists |-> TRUE, table |-> TRUE, rows |-> <<>>],
          [exists |-> TRUE, table |-> TRUE,
           rows |-> <<PurchaseRow(<<123, 125>>, <<80, 68>>, None)>>],
          [exists |-> TRUE, table |-> TRUE,
           rows |-> <<LicenseRow(DecryptionFailedPrefix, <<80, 68>>)>>]}

AuthEnvirons == {e \in NetEnvirons : e.KAPPARI_API_BASE_URL = None}

InitAuth ==
    /\ InitCodec
    /\ InitConfig
    /\ InitTasks
    /\ InitNet
    /\ environ \in AuthEnvirons
    /\ db \in AuthStores
    /\ verify = NoCall

\* The application writes the purchases table anew.
SetStore ==
    /\ db' \in AuthStores \ {db}
    /\ UNCHANGED <<configVars, verify, codecVars, taskVars, netVars>>

\* read_encrypted_data_from_db(config.db_file), by the caller that holds the
\* Auth object.
ReadEncrypted ==
    /\ auth # None
    /\ Len(sent) < MaxSent
    /\ \E r \in {read_encrypted_data_from_db(Get(auth).config.db_path, db)} :
           /\ db' = r.store
           /\ netCall' = AuthCall("read_encrypted_data_from_db", Get(auth), db,
                                  NetResult(r.exc, None, <<>>), Get(auth), r.open)
    /\ UNCHANGED <<configVars, client, auth, sent, origin, verify>>
    /\ UNCHANGED <<codecVars, taskVars>>

NextAuth ==
    \/ ImportClient
    \/ NewAuth
    \/ SetStore
    \/ DecryptLicense
    \/ ReadEncrypted
    \/ AuthAuthenticate

SpecAuth == InitAuth /\ [][NextAuth]_vars


(***************************************************************************)
(* Auth.authenticate and the state of the Auth object.                     *)
(***************************************************************************)
\* Both fields have been populated and license_data parses as JSON.
ReadyToLogin(a) ==
    /\ ~IsNone(a.license_data)
    /\ ~IsNone(a.signature)
    /\ JsonLoads(Get(a.license_data)).ok

\* C21: Auth.authenticate sends a login request only when a call of
\* decrypt_license_data has populated both license_data and signature and
\* license_data parses as JSON; in every other state it raises and sends
\* nothing.
C21_LoginOnlyWhenDecrypted ==
    netCall.op = "Auth.authenticate"
    => /\ netCall.r.sent # <<>>
          => /\ ReadyToLogin(netCall.before)
             /\ netCall.origin.signature > 0
             /\ netCall.origin.license_data > 0
       /\ ~ReadyToLogin(netCall.before)
          => /\ netCall.r.exc # ""
             /\ netCall.r.sent = <<>>

C21_Witness ==
    /\ netCall.op = "Auth.authenticate"
    /\ netCall.r.sent # <<>>
    /\ netCall.r.sent[1].endpoint = "account/login/"


\* A call of decrypt_license_data that raised.
DecryptRaised(call) ==
    call.op = "Auth.decrypt_license_data" /\ call.r.exc # ""

HoldsFailureMessage(a) ==
    /\ ~IsNone(a.license_data)
    /\ StartsWith(Get(a.license_data), DecryptionFailedPrefix)

\* C22: when Auth.decrypt_license_data raises, license_data and signature
\* of the Auth object are what they were before the call; license_data never
\* holds a "Decryption failed..." message.
C22_UnchangedOnError ==
    /\ DecryptRaised(netCall)
       => /\ netCall.after.license_data = netCall.before.license_data
          /\ netCall.after.signature = netCall.before.signature
    /\ auth # None => ~HoldsFailureMessage(Get(auth))


\* A call of Auth.authenticate that handed the fields of the Auth object to
\* the client, which sent them.
LoginSent(call) ==
    /\ call.op = "Auth.authenticate"
    /\ call.r.sent # <<>>
    /\ call.r.sent[1].files
           = LoginForm(Get(call.before.license_data), Get(call.before.signature))

\* C23: the license data and the signature that Auth.authenticate passes to
\* the network client come from one and the same call of
\* decrypt_license_data, a call that succeeded (one database row).
C23_SameDecryptCall ==
    netCall.op = "Auth.authenticate" /\ netCall.r.sent # <<>>
    => /\ LoginSent(netCall)
       /\ netCall.origin.signature > 0
       /\ netCall.origin.license_data = netCall.origin.signature


(***************************************************************************)
(* The failure sentinel of Auth._decrypt_data.  Decryption of a field      *)
(* actually fails when the field is NULL or the decryption steps, as       *)
(* decrypt_paprika_data carries them out, raise.                           *)
(***************************************************************************)
ActuallyFails(field, password) ==
    IF IsNone(field) THEN TRUE
    ELSE decrypt_paprika_data(Get(field), password).exc # ""

ReportsFailure(field, password) ==
    StartsWith(Auth_decrypt_data(field, password), DecryptionFailedPrefix)

\* A call of decrypt_license_data that fetched a row, with the row.
FetchedRow(call) ==
    /\ call.op = "Auth.decrypt_license_data"
    /\ PathExists(call.store, call.before.config.db_path)
    /\ call.store.table
    /\ call.store.rows # <<>>

BothDecrypt(row, config) ==
    /\ ~ActuallyFails(row.data, config.purchase_data_key)
    /\ ~ActuallyFails(row.signature, config.purchase_signature_key)

SentinelExact(row, config) ==
    /\ ReportsFailure(row.data, config.purchase_data_key)
           <=> ActuallyFails(row.data, config.purchase_data_key)
    /\ ReportsFailure(row.signature, config.purchase_signature_key)
           <=> ActuallyFails(row.signature, config.purchase_signature_key)

\* C24: Auth._decrypt_data returns a string beginning with
\* "Decryption failed" if and only if decryption failed, so
\* decrypt_license_data succeeds for every record whose two fields both
\* decrypt, whatever the plaintext.
C24_FailureDistinguishable ==
    FetchedRow(netCall)
    => /\ SentinelExact(netCall.store.rows[1], netCall.before.config)
       /\ BothDecrypt(netCall.store.rows[1], netCall.before.config)
          => netCall.r.exc = ""


(***************************************************************************)
(* The round trip from the other side: a caller decrypts a text and        *)
(* encrypts what it got again, with the password it used and the salt that *)
(* decrypt_paprika_data returned.  The text is the output of an            *)
(* encryption, another spelling of that output that b64decode reads as     *)
(* the same bytes, or a text that no encryption produced.                  *)
(***************************************************************************)
\* With a line break after it, with a character outside the alphabet in
\* front, and, where the text ends in padding, with other bits in the
\* unused part of its last sextet.
OtherBits(blob, i) ==
    IF i > 0 /\ blob[i] < 64 /\ blob[i] % 4 = 0 /\ i < Len(blob)
    THEN {[blob EXCEPT ![i] = blob[i] + 1]}
    ELSE {}

LastSextet(blob) ==
    IF blob = <<>> \/ blob[Len(blob)] # PadChar THEN 0
    ELSE IF blob[Len(blob) - 1] # PadChar THEN Len(blob) - 1
    ELSE Len(blob) - 2

Spellings(blob) ==
    {WithNewline(blob), <<OtherChar>> \o blob} \cup OtherBits(blob, LastSextet(blob))

Canonical(blob) == B64Decode(blob).exc = "" /\ blob = B64Encode(B64Decode(blob).bytes)

DecryptSpelled ==
    /\ encCall # NoCall
    /\ encCall.r.ret # None
    /\ encCall2 = NoCall
    /\ decCall = NoCall
    /\ \E B \in Spellings(Get(encCall.r.ret).value) :
           decCall' = DecCall(B, encCall.password, "spelled")
    /\ UNCHANGED <<encCall, encCall2, surfaced>>
    /\ UNCHANGED <<configVars, verifyVars, taskVars, netVars>>

EncryptDecrypted ==
    /\ decCall # NoCall
    /\ decCall.r.ret # None
    /\ encCall2 = NoCall
    /\ \E R \in RandomSalts :
           encCall2' = EncCall(Get(decCall.r.ret).value, decCall.password,
                               Some(Get(decCall.r.ret).salt), R)
    /\ UNCHANGED <<encCall, decCall, surfaced>>
    /\ UNCHANGED <<configVars, verifyVars, taskVars, netVars>>

NextInverse ==
    \/ Encrypt
    \/ DecryptBlob
    \/ DecryptSpelled
    \/ DecryptText
    \/ EncryptDecrypted
    \/ Return

SpecInverse == Init /\ [][NextInverse]_vars

\* The text was decrypted and the result encrypted again.
Reencrypted == decCall # NoCall /\ decCall.r.ret # None /\ encCall2 # NoCall

\* C25: whenever decrypt_paprika_data(B, W) returns (P, S),
\* encrypt_paprika_data(P, W, S) returns a Base64 string that decodes to the
\* bytes B decodes to, and that is B itself when B is the canonical Base64
\* encoding of those bytes.
C25_InverseRoundTrip ==
    Reencrypted
    => /\ encCall2.r.ret # None
       /\ B64Decode(Get(encCall2.r.ret).value).exc = ""
       /\ B64Decode(Get(encCall2.r.ret).value).bytes = B64Decode(decCall.blob).bytes
       /\ Canonical(decCall.blob) => Get(encCall2.r.ret).value = decCall.blob

C25_Witness ==
    /\ Reencrypted
    /\ encCall2.r.ret # None
    /\ ~Canonical(decCall.blob)
    /\ Get(encCall2.r.ret).value # decCall.blob


(***************************************************************************)
(* The two decryptions side by side: a caller hands one text and one       *)
(* password to decrypt_paprika_data and to Auth._decrypt_data.             *)
(***************************************************************************)
\* Plaintexts that read like the failure message, and one that does not.
SentinelTexts ==
    {DecryptionFailedPrefix, FailedText("Invalid padding"),
     <<68>> \o AsciiText(20), AsciiText(5)}

EncryptSentinel == EncryptFrom(SentinelTexts)

AuthDecryptData ==
    /\ decCall # NoCall
    /\ netCall = NoCall
    /\ netCall' = [op |-> "Auth._decrypt_data", blob |-> decCall.blob,
                   password |-> decCall.password,
                   r |-> Auth_decrypt_data(Some(decCall.blob), decCall.password)]
    /\ UNCHANGED <<client, auth, sent, origin>>
    /\ UNCHANGED <<codecVars, configVars, verifyVars, taskVars>>

ReturnBoth ==
    /\ decCall # NoCall
    /\ netCall # NoCall
    /\ encCall' = NoCall
    /\ encCall2' = NoCall
    /\ decCall' = NoCall
    /\ netCall' = NoCall
    /\ UNCHANGED <<surfaced, client, auth, sent, origin>>
    /\ UNCHANGED <<configVars, verifyVars, taskVars>>

NextAgree ==
    \/ EncryptSentinel
    \/ DecryptBlob
    \/ DecryptText
    \/ AuthDecryptData
    \/ ReturnBoth

SpecAgree == Init /\ [][NextAgree]_vars

\* Both functions have been given the same text and password.
BothDecrypted ==
    /\ decCall # NoCall
    /\ netCall.op = "Auth._decrypt_data"
    /\ netCall.blob = decCall.blob
    /\ netCall.password = decCall.password

\* C26: for every (blob, password), Auth._decrypt_data returns the plaintext
\* P exactly when decrypt_paprika_data returns (P, salt), and returns a
\* "Decryption failed" string exactly when decrypt_paprika_data raises.
C26_DecryptionsAgree ==
    BothDecrypted
    => /\ decCall.r.ret # None => netCall.r = Get(decCall.r.ret).value
       /\ StartsWith(netCall.r, DecryptionFailedPrefix) <=> decCall.r.ret = None


(***************************************************************************)
(* Database connections.                                                   *)
(***************************************************************************)
OpensConnection == {"Auth.decrypt_license_data", "read_encrypted_data_from_db"}

\* C27: every database connection opened by Auth.decrypt_license_data or by
\* read_encrypted_data_from_db is closed when the operation returns or
\* raises, on every exit path.
C27_ConnectionsClosed ==
    netCall.op \in OpensConnection => ~netCall.open


(***************************************************************************)
(* The token of NetworkClient.authenticate.                                *)
(***************************************************************************)
\* The JSON body is an object whose member result is an object with a
\* member token.
HasResultToken(body) ==
    /\ body.json
    /\ body.type = "dict"
    /\ ~IsNone(body.result)
    /\ Get(body.result).type = "dict"
    /\ ~IsNone(Get(body.result).token)

\* The call received a response with status 200 and result.token in it.
TokenReceived(call) ==
    /\ call.r.sent # <<>>
    /\ ~IsNone(call.reply)
    /\ Get(call.reply).status_code = 200
    /\ HasResultToken(Get(call.reply).body)

\* C28: NetworkClient.authenticate returns a token if and only if a response
\* was received with status 200 whose JSON body contains result.token, and
\* then returns that token; in every other case it returns None.
C28_TokenOrNone ==
    netCall.op = "NetworkClient.authenticate"
    => /\ netCall.r.exc = ""
       /\ IF TokenReceived(netCall)
          THEN netCall.r.ret = Get(Get(netCall.reply).body.result).token
          ELSE netCall.r.ret = None


(***************************************************************************)
(* get_config called from two threads.  _ConfigSingleton.get_instance      *)
(* takes no lock, and a thread can be suspended between any two of its     *)
(* steps: the test of _instance (line 416), Config() and the assignment    *)
(* to _instance (line 417), and the read of _instance that is returned     *)
(* (line 418).  tasks[t] is the call thread t is in, held the objects      *)
(* returned so far.                                                        *)
(***************************************************************************)
Threads == {1, 2}

InGetInstance(pc, obj) == [op |-> "get_config", pc |-> pc, obj |-> obj]

At(t, pc) == tasks[t] # NoCall /\ tasks[t].op = "get_config" /\ tasks[t].pc = pc

InitThreads ==
    /\ InitCodec
    /\ InitConfig
    /\ InitTasks
    /\ InitNet
    /\ environ \in ConfigEnvirons
    /\ db = NoStore
    /\ verify = NoCall

ThreadOtherVars == <<codecVars, verifyVars, netVars, shared, environ, cfgCall>>

CallGetConfig ==
    /\ Len(held) < MaxConfigCalls
    /\ \E t \in Threads :
           /\ tasks[t] = NoCall
           /\ tasks' = [tasks EXCEPT ![t] = InGetInstance("test", None)]
    /\ UNCHANGED <<instance, created, held>>
    /\ UNCHANGED ThreadOtherVars

\* if cls._instance is None
TestInstance ==
    /\ \E t \in Threads :
           /\ At(t, "test")
           /\ tasks' = [tasks EXCEPT ![t] =
                  InGetInstance(IF IsNone(instance) THEN "create" ELSE "return",
                                None)]
    /\ UNCHANGED <<instance, created, held>>
    /\ UNCHANGED ThreadOtherVars

\* Config(): when it raises, the call ends with the exception.
CreateConfig ==
    /\ \E t \in Threads, c \in {Config(environ, created + 1)} :
           /\ At(t, "create")
           /\ tasks' = [tasks EXCEPT ![t] =
                  IF c.exc # "" THEN NoCall ELSE InGetInstance("assign", c.obj)]
           /\ created' = IF c.exc # "" THEN created ELSE created + 1
    /\ UNCHANGED <<instance, held>>
    /\ UNCHANGED ThreadOtherVars

\* cls._instance = <the new object>
AssignInstance ==
    /\ \E t \in Threads :
           /\ At(t, "assign")
           /\ instance' = tasks[t].obj
           /\ tasks' = [tasks EXCEPT ![t] = InGetInstance("return", None)]
    /\ UNCHANGED <<created, held>>
    /\ UNCHANGED ThreadOtherVars

\* return cls._instance
ReturnInstance ==
    /\ \E t \in Threads :
           /\ At(t, "return")
           /\ held' = Append(held, [op |-> "get_config", obj |-> Get(instance)])
           /\ tasks' = [tasks EXCEPT ![t] = NoCall]
    /\ UNCHANGED <<instance, created>>
    /\ UNCHANGED ThreadOtherVars

NextThreads ==
    \/ CallGetConfig
    \/ TestInstance
    \/ CreateConfig
    \/ AssignInstance
    \/ ReturnInstance

SpecThreads == InitThreads /\ [][NextThreads]_vars

\* C29: with no reload in between, get_config creates at most one Config
\* instance, also when two threads make the first call at the same time,
\* and all callers receive the same instance.
C29_OneInstance ==
    /\ created <= 1
    /\ \A i, j \in 1..Len(held) : held[i].obj = held[j].obj

====
